---- MODULE Spec2Model ----
(***************************************************************************)
(* faros-server: the command dispatch queue (CommandService / CommandDAO)  *)
(* and the device-flow registrar (AgentService / AgentDAO), as state       *)
(* machines over the rows of the relational store.                          *)
(*                                                                          *)
(* Nullable columns are modelled as sequences of length at most one:       *)
(* None is <<>> and Some(v) is <<v>>.  Time is the wall clock in seconds.   *)
(***************************************************************************)
EXTENDS Naturals, Integers, Sequences, FiniteSets, TLC

VARIABLES
    now,            \* datetime.now(timezone.utc), in seconds
    commands,       \* table agent_commands: sequence of rows, row i has id i
    deliveries,     \* per command id: how many poll_pending results contained it
    last,           \* the outcome of the latest service call
    tx,             \* units of work in flight (overlapping requests)
    registrations,  \* table device_registrations
    agents,         \* table agents
    api_keys,       \* table api_keys
    minted,         \* number of API keys generated so far
    key_returns,    \* per generated key: how many poll_device_flow results carried it
    users,          \* table users: per user id, no row or the row
    socket          \* the WebSocket connection and its WebSocketHandler

vars == <<now, commands, deliveries, last, tx, registrations, agents, api_keys, minted,
          key_returns, users, socket>>

cmdVars == <<commands, deliveries>>
devVars == <<registrations, agents, api_keys, minted>>
wsVars == <<users, socket>>

----------------------------------------------------------------------------
(* Bounds of the model *)

MaxCommands == 2
MaxDeliveries == 3
MaxTicks == 1
MaxOutputLen == 2
MaxQueueOutputLen == 1
MaxOutputCommands == 1
MaxOverlapCommands == 1
MaxRegistrations == 2
MaxKeys == 3
MaxKeyReturns == 2
MaxRoundTrips == 1
MaxOverlapRegistrations == 1
MaxSeeded == 1
MaxReadRegistrations == 1
MaxReadCommands == 1

(* Program constants *)

command_ttl_seconds == 30
expire_minutes == 15

(* Inputs *)

AgentIds == {"a1", "a2"}
CommandTypes == {"Stop"}
Texts == {"x", "y"}
Results == {"ok", "fail"}
Procs == {"p1", "p2"}
Statuses == {"pending", "in_progress", "acked", "expired"}
AgentNames == {"bot1", "bot2"}
RobotTypes == {"px4", "rover"}
UserIds == {"u1", "u2"}
CommandIds == 1..MaxCommands

None == <<>>
Some(v) == <<v>>

Range(s) == {s[i] : i \in DOMAIN s}

----------------------------------------------------------------------------
(* json.dumps / json.loads on the opaque payload and result values *)

JsonDumps(v) == <<"json", v>>
JsonLoads(s) == s[2]

Payloads == {None, Some(JsonDumps("p"))}
NoPayload == {None}

----------------------------------------------------------------------------
(* CommandDAO *)

AgentCommand(id, agent_id, type, payload, created_at) ==
    [id |-> id, agent_id |-> agent_id, type |-> type, payload |-> payload,
     status |-> "pending", result |-> None, output |-> None,
     created_at |-> created_at, delivered_at |-> None, acked_at |-> None]

create_command(cmds, agent_id, type, payload, t) ==
    Append(cmds, AgentCommand(Len(cmds) + 1, agent_id, type, payload, t))


PendingIdsOfAnyAgent(cmds, agent_id) == {i \in DOMAIN cmds : cmds[i].status = "pending"}

PendingIds(cmds, agent_id) ==
    {i \in DOMAIN cmds : cmds[i].agent_id = agent_id /\ cmds[i].status = "pending"}

IsOrderedNewestFirst(cmds, s) ==
    \A i, j \in DOMAIN s : i < j => cmds[s[i]].created_at >= cmds[s[j]].created_at

IsOrderedByCreatedAt(cmds, s) ==
    \A i, j \in DOMAIN s : i < j => cmds[s[i]].created_at <= cmds[s[j]].created_at

\* every row order the ORDER BY created_at clause allows (ties are unordered)
list_pending(cmds, agent_id) ==
    LET ids == PendingIds(cmds, agent_id)
        n == Cardinality(ids)
    IN {s \in [1..n -> ids] : Range(s) = ids /\ IsOrderedByCreatedAt(cmds, s)}

mark_delivered_at_only(cmds, command_ids, t) ==
    [i \in DOMAIN cmds |->
        IF i \in command_ids
        THEN [cmds[i] EXCEPT !.delivered_at = Some(t)]
        ELSE cmds[i]]


mark_all_pending_in_progress(cmds, command_ids, t) ==
    [i \in DOMAIN cmds |->
        IF i \in command_ids \/ cmds[i].status = "pending"
        THEN [cmds[i] EXCEPT !.status = "in_progress", !.delivered_at = Some(t)]
        ELSE cmds[i]]

mark_in_progress(cmds, command_ids, t) ==
    [i \in DOMAIN cmds |->
        IF i \in command_ids
        THEN [cmds[i] EXCEPT !.status = "in_progress", !.delivered_at = Some(t)]
        ELSE cmds[i]]


mark_expired_status_only(cmds, command_ids, t) ==
    [i \in DOMAIN cmds |->
        IF i \in command_ids THEN [cmds[i] EXCEPT !.status = "expired"] ELSE cmds[i]]

mark_expired(cmds, command_ids, t) ==
    [i \in DOMAIN cmds |->
        IF i \in command_ids
        THEN [cmds[i] EXCEPT !.status = "expired", !.delivered_at = Some(t)]
        ELSE cmds[i]]

mark_acked(cmds, id, result_json, t) ==
    [cmds EXCEPT ![id].status = "acked",
                 ![id].result = Some(result_json),
                 ![id].acked_at = Some(t)]

dao_prepend_output(cmds, id, output, text) ==
    [cmds EXCEPT ![id].output =
        IF output = None THEN Some(text) ELSE Some(text \o output[1])]

\* output is the buffer value the unit of work read with the row
dao_append_output(cmds, id, output, text) ==
    [cmds EXCEPT ![id].output =
        IF output = None THEN Some(text) ELSE Some(output[1] \o text)]

find_by_id(cmds, command_id) ==
    IF command_id \in DOMAIN cmds THEN Some(cmds[command_id]) ELSE None


list_by_agent_any_status(cmds, agent_id, status) ==
    LET ids == {i \in DOMAIN cmds : cmds[i].agent_id = agent_id}
        n == Cardinality(ids)
    IN {s \in [1..n -> ids] : Range(s) = ids /\ IsOrderedByCreatedAt(cmds, s)}

list_by_agent(cmds, agent_id, status) ==
    LET ids == {i \in DOMAIN cmds :
                   /\ cmds[i].agent_id = agent_id
                   /\ (status # None => cmds[i].status = status[1])}
        n == Cardinality(ids)
    IN {s \in [1..n -> ids] : Range(s) = ids /\ IsOrderedByCreatedAt(cmds, s)}

----------------------------------------------------------------------------
(* CommandService *)

IsExpired(cmds, id, t) == t - cmds[id].created_at > command_ttl_seconds
IsStrictlyYounger(cmds, id, t) == t - cmds[id].created_at < command_ttl_seconds

IsFresh(cmds, id, t) == t - cmds[id].created_at <= command_ttl_seconds

expired_of(cmds, listed, t) == SelectSeq(listed, LAMBDA id : IsExpired(cmds, id, t))
fresh_of(cmds, listed, t) == SelectSeq(listed, LAMBDA id : IsFresh(cmds, id, t))

\* the two batch updates of one sweep; rows come from the sweep's own read
sweep(cmds, read, listed, t_poll, t_mark) ==
    LET expired == expired_of(read, listed, t_poll)
        fresh == fresh_of(read, listed, t_poll)
        after_expired == IF expired # <<>>
                         THEN mark_expired(cmds, Range(expired), t_mark)
                         ELSE cmds
    IN IF fresh # <<>>
       THEN mark_in_progress(after_expired, Range(fresh), t_mark)
       ELSE after_expired

IsAcked(status) == status = "acked"


IsExpiredOnly(status) == status = "expired"

\* acknowledge: command.status in ("acked", "expired")
IsTerminal(status) == status \in {"acked", "expired"}

IsPending(status) == status = "pending"

\* append_output: command.status != "in_progress"
IsNotInProgress(status) == status # "in_progress"

Delivered(count, result) ==
    [i \in DOMAIN count |-> IF i \in Range(result) THEN count[i] + 1 ELSE count[i]]

\* what the caller of a service method observes: the exception raised (or ""),
\* and for poll_pending the returned list
Outcome(op, err, val) == [op |-> op, err |-> err, val |-> val]

\* a unit of work between its read and its commit: the method running, its
\* arguments, the value of now it took and the rows it read
UnitOfWork(pc, agent, id, t, listed, output, arg) ==
    [pc |-> pc, agent |-> agent, id |-> id, t |-> t, listed |-> listed,
     output |-> output, arg |-> arg]

Idle == UnitOfWork("idle", "", 0, 0, <<>>, None, "")

----------------------------------------------------------------------------

-----------------------------------------------------------------------------
(* The WebSocket transport: one connection and its WebSocketHandler. *)

MaxMessages == 3
MaxConnections == 1

UserNames == {"n1", "n2"}

\* a row of table users; id is the primary key
User(id, name, is_active) == [id |-> id, name |-> name, is_active |-> is_active]

\* what is left at a primary key whose row was removed: ids are never reused
NoUser == User("", "", FALSE)

\* UserDAO.find_by_id: select(User).where(User.id == user_id), one row or None
user_find_by_id(us, user_id) ==
    IF user_id \in DOMAIN us /\ us[user_id] # None /\ us[user_id][1].id = user_id
    THEN us[user_id]
    ELSE None

\* JWTManager.create_token: the signed token of a claims dict; the claims hold
\* sub or not, and exp lies in the future or, for a token kept too long, in the past
create_token(sub, expired) ==
    (IF expired THEN "expired" ELSE "jwt") \o (IF sub = None THEN "" ELSE ":" \o sub[1])

Subs == {None} \cup {Some(user_id) : user_id \in UserIds}

\* JWTManager.decode_token: the claims of a token this server signed and that
\* has not expired; every other string raises ValueError (None here)
decode_token(token) ==
    IF \E sub \in Subs : token = create_token(sub, FALSE)
    THEN Some([sub |-> CHOOSE sub \in Subs : token = create_token(sub, FALSE)])
    ELSE None

\* the strings a client may send as token: none, not a token, an expired
\* token, a token without sub, a token for each user id
Tokens ==
    {"", "garbage", create_token(Some("u1"), TRUE)}
        \cup {create_token(sub, FALSE) : sub \in Subs}

\* JWTManager.resolve_user as cached once: the user of the token whether
\* active or not
resolve_user_any(us, token) ==
    LET payload == decode_token(token)
    IN  IF payload = None THEN None
        ELSE IF payload[1].sub = None THEN None
        ELSE user_find_by_id(us, payload[1].sub[1])

\* JWTManager.resolve_user: the active user of the token, ValueError (None
\* here) for a bad token, a token without sub, a missing or inactive user
resolve_user(us, token) ==
    LET payload == decode_token(token)
    IN  IF payload = None THEN None
        ELSE IF payload[1].sub = None THEN None
        ELSE LET user == user_find_by_id(us, payload[1].sub[1])
             IN  IF user = None \/ ~user[1].is_active THEN None ELSE user

\* WebSocketHandler.authenticate: resolve_user with ValueError turned into None
authenticate(us, token) == resolve_user(us, token)

\* the handler of a connection: _current_user, whether the socket is open and
\* with which code it was closed; received, dispatched and opened count the
\* messages read, the actions dispatched and the connections accepted
Handler(state, close_code, current_user, received, dispatched, opened) ==
    [state |-> state, close_code |-> close_code, current_user |-> current_user,
     received |-> received, dispatched |-> dispatched, opened |-> opened]

NoSocket == Handler("none", 0, None, 0, 0, 0)

ErrorReply(action, code, detail) ==
    [action |-> action, error |-> Some([code |-> code, detail |-> detail]), data |-> None]

DataReply(action, data) == [action |-> action, error |-> None, data |-> Some(data)]

\* AuthResource.me / load_user_response: the fields of the user handed in
me(user) == [id |-> user.id, name |-> user.name, is_active |-> user.is_active]

\* WebSocketHandler.dispatch: auth.me answers with the current user, any
\* other action with 400
dispatch(current_user, action) ==
    IF action = "auth.me"
    THEN DataReply(action, me(current_user[1]))
    ELSE ErrorReply(action, 400, "Unknown action: " \o action)

\* WebSocketHandler.refresh_user without the read: the user kept from
\* authentication is taken as still valid
refresh_user_cached(us, current_user) == current_user

\* WebSocketHandler.refresh_user: the row of the current user as it is now, or
\* None where the code returns False (row gone or inactive)
refresh_user(us, current_user) ==
    LET user == user_find_by_id(us, current_user[1].id)
    IN  IF user = None \/ ~user[1].is_active THEN None ELSE user

WsActions == {"", "auth.me", "status"}

Messages == [action : WsActions, token : Tokens]

\* websocket_endpoint: a client connects, a new handler accepts
websocket_endpoint ==
    /\ socket.state \in {"none", "closed"}
    /\ socket.opened < MaxConnections
    /\ socket' = Handler("open", 0, None, 0, 0, socket.opened + 1)
    /\ last' = Outcome("websocket_endpoint", "", <<>>)
    /\ UNCHANGED <<now, commands, deliveries, tx, devVars, key_returns, users>>

\* the part of run after authentication: re-validate, then dispatch
revalidate_and_dispatch(current_user, action) ==
    LET user == refresh_user(users, current_user)
    IN  IF user = None
        THEN /\ last' = Outcome("run", "",
                                ErrorReply(action, 401, "User not found or inactive"))
             /\ socket' = [socket EXCEPT !.state = "closed", !.close_code = 4001,
                                         !.current_user = current_user,
                                         !.received = @ + 1]
        ELSE /\ last' = Outcome("run", "", dispatch(user, action))
             /\ socket' = [socket EXCEPT !.current_user = user,
                                         !.received = @ + 1,
                                         !.dispatched = @ + 1]

\* WebSocketHandler.run: one turn of the loop, from receive_json to the reply
run(message) ==
    /\ socket.state = "open"
    /\ socket.received < MaxMessages
    /\ LET action == message.action
           token == message.token
       IN  IF socket.current_user = None
           THEN IF token = ""
                THEN /\ last' = Outcome("run", "", ErrorReply(action, 401, "Token required"))
                     /\ socket' = [socket EXCEPT !.received = @ + 1]
                ELSE LET user == authenticate(users, token)
                     IN  IF user = None
                         THEN /\ last' = Outcome("run", "",
                                                 ErrorReply(action, 401, "Invalid token"))
                              /\ socket' = [socket EXCEPT !.state = "closed",
                                                          !.close_code = 4001,
                                                          !.received = @ + 1]
                         ELSE IF action = ""
                              THEN /\ last' = Outcome("run", "",
                                                      DataReply("auth", [status |-> "ok"]))
                                   /\ socket' = [socket EXCEPT !.current_user = user,
                                                               !.received = @ + 1]
                              ELSE revalidate_and_dispatch(user, action)
           ELSE revalidate_and_dispatch(socket.current_user, action)
    /\ UNCHANGED <<now, commands, deliveries, tx, devVars, key_returns, users>>

\* run, except WebSocketDisconnect: the client went away, the loop ends
client_disconnect ==
    /\ socket.state = "open"
    /\ socket' = [socket EXCEPT !.state = "closed"]
    /\ last' = Outcome("client_disconnect", "", <<>>)
    /\ UNCHANGED <<now, commands, deliveries, tx, devVars, key_returns, users>>

\* UserService.find_or_create_user: a first login creates the user, active; a
\* later login updates the name
find_or_create_user(user_id, name) ==
    /\ IF users[user_id] = None
       THEN users' = [users EXCEPT ![user_id] = Some(User(user_id, name, TRUE))]
       ELSE /\ users[user_id] # Some(NoUser)
            /\ users[user_id][1].name # name
            /\ users' = [users EXCEPT ![user_id] = Some([@[1] EXCEPT !.name = name])]
    /\ last' = Outcome("find_or_create_user", "", <<>>)
    /\ UNCHANGED <<now, commands, deliveries, tx, devVars, key_returns, socket>>

\* an administrator clears is_active in the row (no service call does it)
deactivate_user(user_id) ==
    /\ user_find_by_id(users, user_id) # None
    /\ users[user_id][1].is_active
    /\ users' = [users EXCEPT ![user_id] = Some([@[1] EXCEPT !.is_active = FALSE])]
    /\ last' = Outcome("deactivate_user", "", <<>>)
    /\ UNCHANGED <<now, commands, deliveries, tx, devVars, key_returns, socket>>

\* an administrator removes the row (no service call does it)
delete_user(user_id) ==
    /\ user_find_by_id(users, user_id) # None
    /\ users' = [users EXCEPT ![user_id] = Some(NoUser)]
    /\ last' = Outcome("delete_user", "", <<>>)
    /\ UNCHANGED <<now, commands, deliveries, tx, devVars, key_returns, socket>>

Init ==
    /\ now = 0
    /\ commands = <<>>
    /\ deliveries = <<>>
    /\ last = Outcome("init", "", <<>>)
    /\ tx = [p \in Procs |-> Idle]
    /\ registrations = <<>>
    /\ agents = <<>>
    /\ api_keys = <<>>
    /\ minted = 0
    /\ key_returns = <<>>
    /\ users = [user_id \in UserIds |-> None]
    /\ socket = NoSocket

\* the clock advances by exactly the delivery window or by just more than it
TickSteps == {command_ttl_seconds, command_ttl_seconds + 1}

Tick ==
    /\ UNCHANGED wsVars
    /\ /\ now < MaxTicks * command_ttl_seconds
       /\ \E d \in TickSteps : now' = now + d
       /\ UNCHANGED <<commands, deliveries, last, tx, devVars, key_returns>>

(* One service call at a time: each call is one unit of work. *)

queue_command(agent_id, type, payload) ==
    /\ UNCHANGED wsVars
    /\ /\ Len(commands) < MaxCommands
       /\ commands' = create_command(commands, agent_id, type, payload, now)
       /\ deliveries' = Append(deliveries, 0)
       /\ last' = Outcome("queue_command", "", <<>>)
       /\ UNCHANGED <<now, tx, devVars, key_returns>>

poll_pending(agent_id) ==
    /\ UNCHANGED wsVars
    /\ /\ \E listed \in list_pending(commands, agent_id) :
             LET fresh == fresh_of(commands, listed, now)
             IN /\ \A id \in Range(fresh) : deliveries[id] < MaxDeliveries
                /\ commands' = sweep(commands, commands, listed, now, now)
                /\ deliveries' = Delivered(deliveries, fresh)
                /\ last' = Outcome("poll_pending", "", fresh)
       /\ UNCHANGED <<now, tx, devVars, key_returns>>


acknowledge_any_agent(agent_id, command_id, result) ==
    /\ UNCHANGED wsVars
    /\ LET command == find_by_id(commands, command_id)
       IN /\ IF command = None
             THEN /\ last' = Outcome("acknowledge", "CommandNotFoundError", <<>>)
                  /\ UNCHANGED commands
             ELSE IF IsTerminal(command[1].status)
             THEN /\ last' = Outcome("acknowledge", "CommandAlreadyAckedError", <<>>)
                  /\ UNCHANGED commands
             ELSE /\ commands' = mark_acked(commands, command_id, JsonDumps(result), now)
                  /\ last' = Outcome("acknowledge", "", <<>>)
          /\ UNCHANGED <<now, deliveries, tx, devVars, key_returns>>

acknowledge(agent_id, command_id, result) ==
    /\ UNCHANGED wsVars
    /\ LET command == find_by_id(commands, command_id)
       IN /\ IF command = None \/ command[1].agent_id # agent_id
             THEN /\ last' = Outcome("acknowledge", "CommandNotFoundError", <<>>)
                  /\ UNCHANGED commands
             ELSE IF IsTerminal(command[1].status)
             THEN /\ last' = Outcome("acknowledge", "CommandAlreadyAckedError", <<>>)
                  /\ UNCHANGED commands
             ELSE /\ commands' = mark_acked(commands, command_id, JsonDumps(result), now)
                  /\ last' = Outcome("acknowledge", "", <<>>)
          /\ UNCHANGED <<now, deliveries, tx, devVars, key_returns>>

append_output(agent_id, command_id, text) ==
    /\ UNCHANGED wsVars
    /\ LET command == find_by_id(commands, command_id)
       IN /\ IF command = None \/ command[1].agent_id # agent_id
             THEN /\ last' = Outcome("append_output", "CommandNotFoundError", <<>>)
                  /\ UNCHANGED commands
             ELSE IF IsNotInProgress(command[1].status)
             THEN /\ last' = Outcome("append_output", "CommandNotInProgressError", <<>>)
                  /\ UNCHANGED commands
             ELSE /\ command[1].output # None => Len(command[1].output[1]) < MaxOutputLen
                  /\ commands' = dao_append_output(commands, command_id, command[1].output, text)
                  /\ last' = Outcome("append_output", "", <<>>)
          /\ UNCHANGED <<now, deliveries, tx, devVars, key_returns>>

list_commands(agent_id, status) ==
    /\ UNCHANGED wsVars
    /\ /\ \E listed \in list_by_agent(commands, agent_id, status) :
             last' = Outcome("list_commands", "", listed)
       /\ UNCHANGED <<now, commands, deliveries, tx, devVars, key_returns>>

get_command(agent_id, command_id) ==
    /\ UNCHANGED wsVars
    /\ LET command == find_by_id(commands, command_id)
       IN /\ IF command = None \/ command[1].agent_id # agent_id
             THEN last' = Outcome("get_command", "CommandNotFoundError", <<>>)
             ELSE last' = Outcome("get_command", "", <<>>)
          /\ UNCHANGED <<now, commands, deliveries, tx, devVars, key_returns>>

Buffer(row) == IF row.output = None THEN "" ELSE row.output[1]

\* the buffer of an in_progress command may take one more text
HasRoom(command_id, max_len) ==
    (command_id \in DOMAIN commands /\ commands[command_id].status = "in_progress")
       => Len(Buffer(commands[command_id])) < max_len

\* the queue of one agent under sequential calls, with one text and one result
\* value
Next ==
    \/ Tick
    \/ \E t \in CommandTypes, p \in NoPayload : queue_command("a1", t, p)
    \/ poll_pending("a1")
    \/ \E c \in CommandIds : acknowledge("a1", c, "ok")
    \/ \E c \in CommandIds :
          HasRoom(c, MaxQueueOutputLen) /\ append_output("a1", c, "x")
    \/ \E s \in {None, Some("expired")} : list_commands("a1", s)
    \/ \E c \in CommandIds : get_command("a1", c)

Spec == Init /\ [][Next]_vars

\* one command's output buffer under sequential calls made by either agent,
\* with two different texts
NextOutput ==
    \/ Tick
    \/ /\ Len(commands) < MaxOutputCommands
       /\ \E t \in CommandTypes, p \in NoPayload : queue_command("a1", t, p)
    \/ \E a \in AgentIds : poll_pending(a)
    \/ \E a \in AgentIds, c \in CommandIds : acknowledge(a, c, "ok")
    \/ \E a \in AgentIds, c \in CommandIds, t \in Texts : append_output(a, c, t)

SpecOutput == Init /\ [][NextOutput]_vars

\* the queues of two agents under sequential calls, each agent calling with
\* its own id on any command id
NextIsolation ==
    \/ \E a \in AgentIds, t \in CommandTypes, p \in NoPayload : queue_command(a, t, p)
    \/ \E a \in AgentIds : poll_pending(a)
    \/ \E a \in AgentIds, c \in CommandIds : acknowledge(a, c, "ok")
    \/ \E a \in AgentIds, c \in CommandIds :
          HasRoom(c, MaxQueueOutputLen) /\ append_output(a, c, "x")
    \/ \E a \in AgentIds, c \in CommandIds : get_command(a, c)

SpecIsolation == Init /\ [][NextIsolation]_vars

\* the operator's listing of the queue of one agent, with every status
\* filter, between the calls that move its commands through their statuses
\* and next to the commands queued for another agent
NextList ==
    \/ Tick
    \/ \E a \in AgentIds, t \in CommandTypes, p \in NoPayload : queue_command(a, t, p)
    \/ poll_pending("a1")
    \/ \E c \in CommandIds : acknowledge("a1", c, "ok")
    \/ \E s \in {None} \cup {Some(st) : st \in Statuses} : list_commands("a1", s)

SpecList == Init /\ [][NextList]_vars

\* the life of the commands of one agent, with and without payload, with
\* two different results and with output
NextLifecycle ==
    \/ Tick
    \/ /\ Len(commands) < MaxOutputCommands
       /\ \E t \in CommandTypes, p \in Payloads : queue_command("a1", t, p)
    \/ poll_pending("a1")
    \/ \E c \in CommandIds, r \in Results : acknowledge("a1", c, r)
    \/ \E c \in CommandIds :
          HasRoom(c, MaxQueueOutputLen) /\ append_output("a1", c, "x")

SpecLifecycle == Init /\ [][NextLifecycle]_vars

\* the queue of an agent that keeps polling: a poll that would change the
\* state is not postponed forever
NextPolling ==
    \/ Tick
    \/ \E t \in CommandTypes, p \in NoPayload : queue_command("a1", t, p)
    \/ poll_pending("a1")
    \/ \E c \in CommandIds : acknowledge("a1", c, "ok")

SpecPolling == Init /\ [][NextPolling]_vars /\ WF_vars(poll_pending("a1"))

----------------------------------------------------------------------------
(* The operator's enqueue request, POST /api/agents/{agent_id}/commands.  A  *)
(* request body's type is a sequence of characters, so that trimming is      *)
(* computed.                                                                  *)

Whitespace == {" ", "\t"}
RawTypes == {<<>>, <<" ">>, <<" ", "\t">>, <<"S">>, <<" ", "S", " ">>, <<"S", " ", "T">>}

RECURSIVE lstrip(_)
lstrip(s) == IF s # <<>> /\ Head(s) \in Whitespace THEN lstrip(Tail(s)) ELSE s

RECURSIVE rstrip(_)
rstrip(s) ==
    IF s # <<>> /\ s[Len(s)] \in Whitespace THEN rstrip(SubSeq(s, 1, Len(s) - 1)) ELSE s

keep_whitespace(s) == s

strip(s) == rstrip(lstrip(s))

\* the request handler: the type is trimmed and must not be blank, then
\* CommandService.queue_command
post_agent_command(agent_id, type, payload) ==
    /\ UNCHANGED wsVars
    /\ LET command_type == strip(type)
       IN IF command_type = <<>>
          THEN /\ last' = Outcome("queue_command", "InvalidArgument", <<>>)
               /\ UNCHANGED <<now, commands, deliveries, tx, devVars, key_returns>>
          ELSE queue_command(agent_id, command_type, payload)

\* enqueue requests of an operator and the polls and acknowledgements of the
\* agent
NextEnqueue ==
    \/ \E t \in RawTypes, p \in Payloads : post_agent_command("a1", t, p)
    \/ poll_pending("a1")
    \/ \E c \in CommandIds : acknowledge("a1", c, "ok")

SpecEnqueue == Init /\ [][NextEnqueue]_vars

----------------------------------------------------------------------------
(* Overlapping requests: every await inside a unit of work lets another        *)
(* request run, so a service call is a read step followed by a step that       *)
(* writes and commits.  Writes of one unit of work become visible together.    *)

\* poll_pending up to the return of list_pending
poll_pending_read(p, agent_id) ==
    /\ UNCHANGED wsVars
    /\ /\ tx[p].pc = "idle"
       /\ \E listed \in list_pending(commands, agent_id) :
             tx' = [tx EXCEPT ![p] =
                       UnitOfWork("poll_pending", agent_id, 0, now, listed, None, "")]
       /\ UNCHANGED <<now, commands, deliveries, last, devVars, key_returns>>

\* poll_pending from mark_expired to the return
poll_pending_commit(p) ==
    /\ UNCHANGED wsVars
    /\ /\ tx[p].pc = "poll_pending"
       /\ LET fresh == fresh_of(commands, tx[p].listed, tx[p].t)
          IN /\ \A id \in Range(fresh) : deliveries[id] < MaxDeliveries
             /\ commands' = sweep(commands, commands, tx[p].listed, tx[p].t, now)
             /\ deliveries' = Delivered(deliveries, fresh)
             /\ last' = Outcome("poll_pending", "", fresh)
       /\ tx' = [tx EXCEPT ![p] = Idle]
       /\ UNCHANGED <<now, devVars, key_returns>>

\* acknowledge up to the status check
acknowledge_read(p, agent_id, command_id, result) ==
    /\ UNCHANGED wsVars
    /\ LET command == find_by_id(commands, command_id)
       IN /\ tx[p].pc = "idle"
          /\ IF command = None \/ command[1].agent_id # agent_id
             THEN /\ last' = Outcome("acknowledge", "CommandNotFoundError", <<>>)
                  /\ UNCHANGED tx
             ELSE IF IsTerminal(command[1].status)
             THEN /\ last' = Outcome("acknowledge", "CommandAlreadyAckedError", <<>>)
                  /\ UNCHANGED tx
             ELSE /\ tx' = [tx EXCEPT ![p] =
                               UnitOfWork("acknowledge", agent_id, command_id, now,
                                          <<>>, None, result)]
                  /\ UNCHANGED last
          /\ UNCHANGED <<now, commands, deliveries, devVars, key_returns>>

\* acknowledge from mark_acked to the return
acknowledge_commit(p) ==
    /\ UNCHANGED wsVars
    /\ /\ tx[p].pc = "acknowledge"
       /\ commands' = mark_acked(commands, tx[p].id, JsonDumps(tx[p].arg), now)
       /\ last' = Outcome("acknowledge", "", <<>>)
       /\ tx' = [tx EXCEPT ![p] = Idle]
       /\ UNCHANGED <<now, deliveries, devVars, key_returns>>

\* append_output up to the status check
append_output_read(p, agent_id, command_id, text) ==
    /\ UNCHANGED wsVars
    /\ LET command == find_by_id(commands, command_id)
       IN /\ tx[p].pc = "idle"
          /\ IF command = None \/ command[1].agent_id # agent_id
             THEN /\ last' = Outcome("append_output", "CommandNotFoundError", <<>>)
                  /\ UNCHANGED tx
             ELSE IF IsNotInProgress(command[1].status)
             THEN /\ last' = Outcome("append_output", "CommandNotInProgressError", <<>>)
                  /\ UNCHANGED tx
             ELSE /\ command[1].output # None => Len(command[1].output[1]) < MaxOutputLen
                  /\ tx' = [tx EXCEPT ![p] =
                               UnitOfWork("append_output", agent_id, command_id, now,
                                          <<>>, command[1].output, text)]
                  /\ UNCHANGED last
          /\ UNCHANGED <<now, commands, deliveries, devVars, key_returns>>

\* append_output from CommandDAO.append_output to the return
append_output_commit(p) ==
    /\ UNCHANGED wsVars
    /\ /\ tx[p].pc = "append_output"
       /\ commands' = dao_append_output(commands, tx[p].id, tx[p].output, tx[p].arg)
       /\ last' = Outcome("append_output", "", <<>>)
       /\ tx' = [tx EXCEPT ![p] = Idle]
       /\ UNCHANGED <<now, deliveries, devVars, key_returns>>

NextOverlap ==
    \/ Tick
    \/ /\ Len(commands) < MaxOverlapCommands
       /\ \E t \in CommandTypes, p \in NoPayload : queue_command("a1", t, p)
    \/ \E p \in Procs : poll_pending_read(p, "a1")
    \/ \E p \in Procs : poll_pending_commit(p)
    \/ \E p \in Procs, c \in CommandIds : acknowledge_read(p, "a1", c, "ok")
    \/ \E p \in Procs : acknowledge_commit(p)
    \/ \E p \in Procs, c \in CommandIds : append_output_read(p, "a1", c, "x")
    \/ \E p \in Procs : append_output_commit(p)

SpecOverlap == Init /\ [][NextOverlap]_vars

\* the agent's poller, one sweep at a time, with enqueue requests of the
\* operator arriving at any point of a sweep
NextEnqueueDuringSweep ==
    \/ Tick
    \/ \E t \in CommandTypes, p \in NoPayload : queue_command("a1", t, p)
    \/ poll_pending_read("p1", "a1")
    \/ poll_pending_commit("p1")

SpecEnqueueDuringSweep == Init /\ [][NextEnqueueDuringSweep]_vars

----------------------------------------------------------------------------
(* Crypto: codes and keys come from the secrets module; a generated value is  *)
(* taken to differ from every value generated before.                          *)

DeviceCode(n) == <<"device_code", n>>
UserCode(n) == <<"user_code", n>>
generate_api_key(n) == <<"fk_", n>>
hash_key(plaintext) == <<"sha256", plaintext>>

----------------------------------------------------------------------------
(* AgentDAO *)


ApprovedRegistration(n, agent_name, robot_type, expires_at, t) ==
    [id |-> n, device_code |-> DeviceCode(n), user_code |-> UserCode(n),
     agent_name |-> agent_name, robot_type |-> robot_type, status |-> "approved",
     api_key_plaintext |-> None, agent_id |-> None,
     expires_at |-> expires_at, created_at |-> t]

DeviceRegistration(n, agent_name, robot_type, expires_at, t) ==
    [id |-> n, device_code |-> DeviceCode(n), user_code |-> UserCode(n),
     agent_name |-> agent_name, robot_type |-> robot_type, status |-> "pending",
     api_key_plaintext |-> None, agent_id |-> None,
     expires_at |-> expires_at, created_at |-> t]

create_device_registration(regs, agent_name, robot_type, expires_at, t) ==
    Append(regs, DeviceRegistration(Len(regs) + 1, agent_name, robot_type, expires_at, t))

find_registration_by_device_code(regs, device_code) ==
    LET found == {i \in DOMAIN regs : regs[i].device_code = device_code}
    IN IF found = {} THEN None ELSE Some(CHOOSE i \in found : TRUE)

find_registration_by_user_code(regs, user_code) ==
    LET found == {i \in DOMAIN regs : regs[i].user_code = user_code}
    IN IF found = {} THEN None ELSE Some(CHOOSE i \in found : TRUE)

Agent(id, name, robot_type, owner_id, t) ==
    [id |-> id, name |-> name, robot_type |-> robot_type, owner_id |-> owner_id,
     created_at |-> t, last_seen_at |-> None, status |-> "registered",
     last_health |-> None]

create_agent(ags, name, robot_type, owner_id, t) ==
    Append(ags, Agent(Len(ags) + 1, name, robot_type, owner_id, t))

find_no_agent(ags, name) == None

find_agent_by_name(ags, name) ==
    LET found == {i \in DOMAIN ags : ags[i].name = name}
    IN IF found = {} THEN None ELSE Some(CHOOSE i \in found : TRUE)

find_no_agent_by_id(ags, agent_id) == None

find_agent_by_id(ags, agent_id) ==
    LET found == {i \in DOMAIN ags : ags[i].id = agent_id}
    IN IF found = {} THEN None ELSE Some(CHOOSE i \in found : TRUE)


touch_every_agent(ags, agent_id, t) ==
    [i \in DOMAIN ags |-> [ags[i] EXCEPT !.last_seen_at = Some(t)]]

update_agent_last_seen(ags, agent_id, t) ==
    [i \in DOMAIN ags |->
        IF ags[i].id = agent_id THEN [ags[i] EXCEPT !.last_seen_at = Some(t)]
        ELSE ags[i]]

ApiKey(key_hash, agent_id, t) ==
    [key_hash |-> key_hash, agent_id |-> agent_id, created_at |-> t,
     last_used |-> None, revoked |-> FALSE]



create_api_key_revoking_others(keys, key_hash, agent_id, t) ==
    Append([i \in DOMAIN keys |->
               IF keys[i].agent_id = agent_id THEN [keys[i] EXCEPT !.revoked = TRUE]
               ELSE keys[i]],
           ApiKey(key_hash, agent_id, t))

create_no_api_key(keys, key_hash, agent_id, t) == keys

create_api_key(keys, key_hash, agent_id, t) ==
    Append(keys, ApiKey(key_hash, agent_id, t))

find_api_key_even_revoked(keys, key_hash) ==
    LET found == {i \in DOMAIN keys : keys[i].key_hash = key_hash}
    IN IF found = {} THEN None ELSE Some(CHOOSE i \in found : TRUE)

\* where key_hash = :key_hash and revoked = false
find_api_key_by_hash(keys, key_hash) ==
    LET found == {i \in DOMAIN keys :
                     keys[i].key_hash = key_hash /\ keys[i].revoked = FALSE}
    IN IF found = {} THEN None ELSE Some(CHOOSE i \in found : TRUE)

all_keys_of(keys, agent_id) == {i \in DOMAIN keys : keys[i].agent_id = agent_id}


\* select Agent where owner_id = :owner_id, in any row order
list_agents_by_owner(ags, owner_id) ==
    LET ids == {i \in DOMAIN ags : ags[i].owner_id = owner_id}
        n == Cardinality(ids)
    IN {s \in [1..n -> ids] : Range(s) = ids}

\* the rows revoke_api_keys_for_agent updates: where agent_id = :agent_id and
\* revoked = false; their number is the rowcount it returns
live_keys_of(keys, agent_id) ==
    {i \in DOMAIN keys : keys[i].agent_id = agent_id /\ keys[i].revoked = FALSE}


revoke_no_keys(keys, agent_id) == keys

revoke_api_keys_for_agent(keys, agent_id) ==
    [i \in DOMAIN keys |->
        IF i \in live_keys_of(keys, agent_id) THEN [keys[i] EXCEPT !.revoked = TRUE]
        ELSE keys[i]]

----------------------------------------------------------------------------
(* AgentService and the error mapping of AgentResource *)

expires_in == expire_minutes * 60

IsNeverPastExpiry(reg, t) == FALSE

IsAtOrPastExpiry(reg, t) == t >= reg.expires_at

IsPastExpiry(reg, t) == t > reg.expires_at

IsNeverUsed(status) == FALSE

IsApproved(status) == status = "approved"

\* approve_device: reg.status != "pending"
IsAlreadyUsed(status) == status # "pending"

\* AgentResource.approve_device: the exception chosen from the message
DeviceFlowError(message) ==
    CASE message = "Device code has expired" -> "DeviceFlowExpiredError"
      [] message = "Device code already used" -> "DeviceFlowAlreadyUsedError"
      [] OTHER -> "DeviceFlowNotFoundError"

\* AgentResource.revoke_key: the exception chosen from the message
AgentError(message) ==
    CASE message = "Agent not found" -> "AgentNotFoundError"
      [] OTHER -> "AgentNotOwnedError"

overwrite_or_create_agent(ags, existing, name, robot_type, owner_id, t) ==
    IF existing # None
    THEN [ags EXCEPT ![existing[1]].robot_type = robot_type,
                     ![existing[1]].owner_id = owner_id]
    ELSE create_agent(ags, name, robot_type, owner_id, t)

\* approve_device: reuse the existing agent or create a new one
reuse_or_create_agent(ags, existing, name, robot_type, owner_id, t) ==
    IF existing # None THEN ags
    ELSE create_agent(ags, name, robot_type, owner_id, t)

DeviceTickSteps == {expires_in, expires_in + 1}

DeviceTick ==
    /\ UNCHANGED wsVars
    /\ /\ now < MaxTicks * expires_in
       /\ \E d \in DeviceTickSteps : now' = now + d
       /\ UNCHANGED <<commands, deliveries, last, tx, devVars, key_returns>>

start_device_flow(agent_name, robot_type) ==
    /\ UNCHANGED wsVars
    /\ /\ Len(registrations) < MaxRegistrations
       /\ registrations' = create_device_registration(
               registrations, agent_name, robot_type, now + expires_in, now)
       /\ last' = Outcome("start_device_flow", "", <<Len(registrations) + 1>>)
       /\ UNCHANGED <<now, commands, deliveries, tx, agents, api_keys, minted, key_returns>>


poll_device_flow_once(device_code) ==
    /\ UNCHANGED wsVars
    /\ LET found == find_registration_by_device_code(registrations, device_code)
           reg == registrations[found[1]]
           k == reg.api_key_plaintext[1][2]
       IN /\ IF found = None
             THEN /\ last' = Outcome("poll_device_flow", "DeviceFlowNotFoundError", <<>>)
                  /\ UNCHANGED <<key_returns, registrations>>
             ELSE IF IsPastExpiry(reg, now)
             THEN /\ last' = Outcome("poll_device_flow", "", <<"expired">>)
                  /\ UNCHANGED <<key_returns, registrations>>
             ELSE IF reg.status = "pending"
             THEN /\ last' = Outcome("poll_device_flow", "", <<"authorization_pending">>)
                  /\ UNCHANGED <<key_returns, registrations>>
             ELSE IF /\ reg.status = "approved"
                     /\ reg.api_key_plaintext # None
                     /\ reg.agent_id # None
             THEN /\ key_returns[k] < MaxKeyReturns
                  /\ last' = Outcome("poll_device_flow", "",
                                     <<"complete", reg.api_key_plaintext[1], reg.agent_id[1]>>)
                  /\ key_returns' = [key_returns EXCEPT ![k] = @ + 1]
                  /\ registrations' = [registrations EXCEPT ![found[1]].api_key_plaintext = None]
             ELSE /\ last' = Outcome("poll_device_flow", "", <<reg.status>>)
                  /\ UNCHANGED <<key_returns, registrations>>
          /\ UNCHANGED <<now, commands, deliveries, tx, agents, api_keys, minted>>

poll_device_flow(device_code) ==
    /\ UNCHANGED wsVars
    /\ LET found == find_registration_by_device_code(registrations, device_code)
           reg == registrations[found[1]]
           k == reg.api_key_plaintext[1][2]
       IN /\ IF found = None
             THEN /\ last' = Outcome("poll_device_flow", "DeviceFlowNotFoundError", <<>>)
                  /\ UNCHANGED key_returns
             ELSE IF IsPastExpiry(reg, now)
             THEN /\ last' = Outcome("poll_device_flow", "", <<"expired">>)
                  /\ UNCHANGED key_returns
             ELSE IF reg.status = "pending"
             THEN /\ last' = Outcome("poll_device_flow", "", <<"authorization_pending">>)
                  /\ UNCHANGED key_returns
             ELSE IF /\ reg.status = "approved"
                     /\ reg.api_key_plaintext # None
                     /\ reg.agent_id # None
             THEN /\ key_returns[k] < MaxKeyReturns
                  /\ last' = Outcome("poll_device_flow", "",
                                     <<"complete", reg.api_key_plaintext[1], reg.agent_id[1]>>)
                  /\ key_returns' = [key_returns EXCEPT ![k] = @ + 1]
             ELSE /\ last' = Outcome("poll_device_flow", "", <<reg.status>>)
                  /\ UNCHANGED key_returns
          /\ UNCHANGED <<now, commands, deliveries, tx, devVars>>


approve_device_status_first(user_code, owner_id) ==
    /\ UNCHANGED wsVars
    /\ LET found == find_registration_by_user_code(registrations, user_code)
           n == found[1]
           reg == registrations[n]
           existing == find_agent_by_name(agents, reg.agent_name)
           agents_after == reuse_or_create_agent(agents, existing, reg.agent_name,
                                                 reg.robot_type, owner_id, now)
           agent == IF existing # None THEN agents_after[existing[1]]
                    ELSE agents_after[Len(agents_after)]
           plaintext == generate_api_key(minted + 1)
       IN /\ IF found = None
             THEN /\ last' = Outcome("approve_device",
                                     DeviceFlowError("Unknown user code"), <<>>)
                  /\ UNCHANGED <<devVars, key_returns>>
             ELSE IF IsAlreadyUsed(reg.status)
             THEN /\ last' = Outcome("approve_device",
                                     DeviceFlowError("Device code already used"), <<>>)
                  /\ UNCHANGED <<devVars, key_returns>>
             ELSE IF IsPastExpiry(reg, now)
             THEN /\ last' = Outcome("approve_device",
                                     DeviceFlowError("Device code has expired"), <<>>)
                  /\ UNCHANGED <<devVars, key_returns>>
             ELSE /\ minted < MaxKeys
                  /\ agents' = agents_after
                  /\ minted' = minted + 1
                  /\ key_returns' = Append(key_returns, 0)
                  /\ api_keys' = create_api_key(api_keys, hash_key(plaintext), agent.id, now)
                  /\ registrations' =
                        [registrations EXCEPT ![n].status = "approved",
                                              ![n].api_key_plaintext = Some(plaintext),
                                              ![n].agent_id = Some(agent.id)]
                  /\ last' = Outcome("approve_device", "", <<agent.id, agent.name>>)
          /\ UNCHANGED <<now, commands, deliveries, tx>>

approve_device(user_code, owner_id) ==
    /\ UNCHANGED wsVars
    /\ LET found == find_registration_by_user_code(registrations, user_code)
           n == found[1]
           reg == registrations[n]
           existing == find_agent_by_name(agents, reg.agent_name)
           agents_after == reuse_or_create_agent(agents, existing, reg.agent_name,
                                                 reg.robot_type, owner_id, now)
           agent == IF existing # None THEN agents_after[existing[1]]
                    ELSE agents_after[Len(agents_after)]
           plaintext == generate_api_key(minted + 1)
       IN /\ IF found = None
             THEN /\ last' = Outcome("approve_device",
                                     DeviceFlowError("Unknown user code"), <<>>)
                  /\ UNCHANGED <<devVars, key_returns>>
             ELSE IF IsPastExpiry(reg, now)
             THEN /\ last' = Outcome("approve_device",
                                     DeviceFlowError("Device code has expired"), <<>>)
                  /\ UNCHANGED <<devVars, key_returns>>
             ELSE IF IsAlreadyUsed(reg.status)
             THEN /\ last' = Outcome("approve_device",
                                     DeviceFlowError("Device code already used"), <<>>)
                  /\ UNCHANGED <<devVars, key_returns>>
             ELSE /\ minted < MaxKeys
                  /\ agents' = agents_after
                  /\ minted' = minted + 1
                  /\ key_returns' = Append(key_returns, 0)
                  /\ api_keys' = create_api_key(api_keys, hash_key(plaintext), agent.id, now)
                  /\ registrations' =
                        [registrations EXCEPT ![n].status = "approved",
                                              ![n].api_key_plaintext = Some(plaintext),
                                              ![n].agent_id = Some(agent.id)]
                  /\ last' = Outcome("approve_device", "", <<agent.id, agent.name>>)
          /\ UNCHANGED <<now, commands, deliveries, tx>>

\* AgentService.deny_device, which AgentResource.deny_device calls: the same
\* lookup and refusals as approve_device, then status = "denied"
deny_device(user_code) ==
    /\ UNCHANGED wsVars
    /\ LET found == find_registration_by_user_code(registrations, user_code)
           n == found[1]
           reg == registrations[n]
       IN /\ IF found = None
             THEN /\ last' = Outcome("deny_device",
                                     DeviceFlowError("Unknown user code"), <<>>)
                  /\ UNCHANGED registrations
             ELSE IF IsPastExpiry(reg, now)
             THEN /\ last' = Outcome("deny_device",
                                     DeviceFlowError("Device code has expired"), <<>>)
                  /\ UNCHANGED registrations
             ELSE IF IsAlreadyUsed(reg.status)
             THEN /\ last' = Outcome("deny_device",
                                     DeviceFlowError("Device code already used"), <<>>)
                  /\ UNCHANGED registrations
             ELSE /\ registrations' = [registrations EXCEPT ![n].status = "denied"]
                  /\ last' = Outcome("deny_device", "", <<"denied">>)
          /\ UNCHANGED <<now, commands, deliveries, tx, agents, api_keys, minted, key_returns>>

resolve_api_key(api_key) ==
    /\ UNCHANGED wsVars
    /\ LET row == find_api_key_by_hash(api_keys, hash_key(api_key))
           agent == find_agent_by_id(agents, api_keys[row[1]].agent_id)
       IN /\ IF row = None
             THEN /\ last' = Outcome("resolve_api_key", "Invalid API key", <<>>)
                  /\ UNCHANGED agents
             ELSE IF agent = None
             THEN /\ last' = Outcome("resolve_api_key", "Agent not found for API key", <<>>)
                  /\ UNCHANGED agents
             ELSE /\ agents' = update_agent_last_seen(agents, agents[agent[1]].id, now)
                  /\ last' = Outcome("resolve_api_key", "", <<agents[agent[1]].id>>)
          /\ UNCHANGED <<now, commands, deliveries, tx, registrations, api_keys, minted,
                         key_returns>>


revoke_any_agent_key(agent_id, owner_id) ==
    /\ UNCHANGED wsVars
    /\ LET agent == find_agent_by_id(agents, agent_id)
       IN /\ IF agent = None
             THEN /\ last' = Outcome("revoke_agent_key", AgentError("Agent not found"), <<>>)
                  /\ UNCHANGED api_keys
             ELSE /\ api_keys' = revoke_api_keys_for_agent(api_keys, agent_id)
                  /\ last' = Outcome("revoke_agent_key", "",
                                     <<Cardinality(live_keys_of(api_keys, agent_id))>>)
          /\ UNCHANGED <<now, commands, deliveries, tx, registrations, agents, minted,
                         key_returns>>

revoke_agent_key(agent_id, owner_id) ==
    /\ UNCHANGED wsVars
    /\ LET agent == find_agent_by_id(agents, agent_id)
       IN /\ IF agent = None
             THEN /\ last' = Outcome("revoke_agent_key", AgentError("Agent not found"), <<>>)
                  /\ UNCHANGED api_keys
             ELSE IF agents[agent[1]].owner_id # owner_id
             THEN /\ last' = Outcome("revoke_agent_key",
                                     AgentError("Not the agent owner"), <<>>)
                  /\ UNCHANGED api_keys
             ELSE /\ api_keys' = revoke_api_keys_for_agent(api_keys, agent_id)
                  /\ last' = Outcome("revoke_agent_key", "",
                                     <<Cardinality(live_keys_of(api_keys, agent_id))>>)
          /\ UNCHANGED <<now, commands, deliveries, tx, registrations, agents, minted,
                         key_returns>>


\* AgentResource.agent_logout: resolve_api_key, then revoke_agent_key with the
\* resolved agent's own owner_id as the requester; only the ValueError of
\* resolve_api_key is caught
agent_logout(api_key) ==
    /\ UNCHANGED wsVars
    /\ LET row == find_api_key_by_hash(api_keys, hash_key(api_key))
           found == find_agent_by_id(agents, api_keys[row[1]].agent_id)
           seen == update_agent_last_seen(agents, agents[found[1]].id, now)
           agent == seen[found[1]]
           again == find_agent_by_id(seen, agent.id)
       IN /\ IF row = None \/ found = None
             THEN /\ last' = Outcome("agent_logout", "AgentNotFoundError", <<>>)
                  /\ UNCHANGED <<agents, api_keys>>
             ELSE IF again = None \/ seen[again[1]].owner_id # agent.owner_id
             THEN /\ last' = Outcome("agent_logout", "ValueError", <<>>)
                  /\ agents' = seen
                  /\ UNCHANGED api_keys
             ELSE /\ agents' = seen
                  /\ api_keys' = revoke_api_keys_for_agent(api_keys, agent.id)
                  /\ last' = Outcome("agent_logout", "",
                                     <<Cardinality(live_keys_of(api_keys, agent.id))>>)
          /\ UNCHANGED <<now, commands, deliveries, tx, registrations, minted, key_returns>>

\* an agent row deleted directly from the table: its slot stays, holding no
\* row (id 0 and the empty name, which no row has)
NoAgent == Agent(0, "", "", "", 0)

delete_agent(name) ==
    /\ UNCHANGED wsVars
    /\ /\ find_agent_by_name(agents, name) # None
       /\ agents' = [i \in DOMAIN agents |->
                        IF agents[i].name = name THEN NoAgent ELSE agents[i]]
       /\ last' = Outcome("delete_agent", "", <<>>)
       /\ UNCHANGED <<now, commands, deliveries, tx, registrations, api_keys, minted,
                      key_returns>>


\* AgentResource.device_page over AgentService.get_registration_by_user_code
device_page(user_code) ==
    /\ UNCHANGED wsVars
    /\ LET found == find_registration_by_user_code(registrations, user_code)
           reg == registrations[found[1]]
       IN /\ IF found = None
             THEN last' = Outcome("device_page", DeviceFlowError("Unknown user code"), <<>>)
             ELSE IF IsPastExpiry(reg, now)
             THEN last' = Outcome("device_page",
                                  DeviceFlowError("Device code has expired"), <<>>)
             ELSE last' = Outcome("device_page", "",
                                  <<reg.user_code, reg.agent_name, reg.robot_type, reg.status>>)
          /\ UNCHANGED <<now, commands, deliveries, tx, devVars, key_returns>>

list_agents(owner_id) ==
    /\ UNCHANGED wsVars
    /\ /\ \E listed \in list_agents_by_owner(agents, owner_id) :
             last' = Outcome("list_agents", "", listed)
       /\ UNCHANGED <<now, commands, deliveries, tx, devVars, key_returns>>

RegistrationIds == 1..MaxRegistrations
KeyIds == 1..MaxKeys

\* the device flow of one device under sequential calls, with one operator
NextDevice ==
    \/ DeviceTick
    \/ start_device_flow("bot1", "px4")
    \/ \E n \in RegistrationIds : poll_device_flow(DeviceCode(n))
    \/ \E n \in RegistrationIds : approve_device(UserCode(n), "u1")
    \/ \E n \in RegistrationIds : deny_device(UserCode(n))

SpecDevice == Init /\ [][NextDevice]_vars

\* one enrolment from start to key resolution and revocation
NextRoundTrip ==
    \/ DeviceTick
    \/ /\ Len(registrations) < MaxRoundTrips
       /\ start_device_flow("bot1", "px4")
    \/ \E n \in RegistrationIds : poll_device_flow(DeviceCode(n))
    \/ \E n \in RegistrationIds, u \in UserIds : approve_device(UserCode(n), u)
    \/ \E k \in KeyIds : resolve_api_key(generate_api_key(k))
    \/ \E a \in RegistrationIds, u \in UserIds : revoke_agent_key(a, u)

SpecRoundTrip == Init /\ [][NextRoundTrip]_vars

\* the agent directory: keys minted by approvals, resolved and revoked
NextDirectory ==
    \/ \E name \in AgentNames : start_device_flow(name, "px4")
    \/ \E n \in RegistrationIds, u \in UserIds : approve_device(UserCode(n), u)
    \/ \E k \in RegistrationIds : resolve_api_key(generate_api_key(k))
    \/ \E a \in RegistrationIds, u \in UserIds : revoke_agent_key(a, u)

SpecDirectory == Init /\ [][NextDirectory]_vars

\* an agent row inserted directly, with an empty owner_id
seed_agent(name, robot_type) ==
    /\ UNCHANGED wsVars
    /\ /\ Cardinality({i \in DOMAIN agents : agents[i].owner_id = ""}) < MaxSeeded
       /\ find_agent_by_name(agents, name) = None
       /\ agents' = create_agent(agents, name, robot_type, "", now)
       /\ last' = Outcome("seed_agent", "", <<Len(agents) + 1>>)
       /\ UNCHANGED <<now, commands, deliveries, tx, registrations, api_keys, minted,
                      key_returns>>

\* enrolments that may meet an agent of the same name, created by an earlier
\* approval or inserted directly
NextReuse ==
    \/ \E name \in AgentNames, rt \in RobotTypes : seed_agent(name, rt)
    \/ \E name \in AgentNames, rt \in RobotTypes : start_device_flow(name, rt)
    \/ \E n \in RegistrationIds, u \in UserIds : approve_device(UserCode(n), u)

SpecReuse == Init /\ [][NextReuse]_vars

\* credentials: keys minted by approvals for agents with and without an
\* owner, presented to resolve_api_key and to the logout endpoint, with agent
\* rows that may be deleted under their keys
NextCredential ==
    \/ \E name \in AgentNames : seed_agent(name, "px4")
    \/ \E name \in AgentNames : start_device_flow(name, "px4")
    \/ \E n \in RegistrationIds : approve_device(UserCode(n), "u1")
    \/ \E name \in AgentNames : delete_agent(name)
    \/ \E k \in RegistrationIds : resolve_api_key(generate_api_key(k))
    \/ \E k \in RegistrationIds : agent_logout(generate_api_key(k))

SpecCredential == Init /\ [][NextCredential]_vars

\* the read operations of the registrar and of the queue, between the calls
\* that fill the four tables
NextReads ==
    \/ DeviceTick
    \/ /\ Len(registrations) < MaxReadRegistrations
       /\ start_device_flow("bot1", "px4")
    \/ \E n \in RegistrationIds : approve_device(UserCode(n), "u1")
    \/ /\ Len(commands) < MaxReadCommands
       /\ \E t \in CommandTypes, p \in NoPayload : queue_command("a1", t, p)
    \/ \E n \in RegistrationIds : poll_device_flow(DeviceCode(n))
    \/ \E n \in RegistrationIds : device_page(UserCode(n))
    \/ \E u \in UserIds : list_agents(u)
    \/ \E s \in {None, Some("pending")} : list_commands("a1", s)
    \/ \E a \in AgentIds, c \in CommandIds : get_command(a, c)

SpecReads == Init /\ [][NextReads]_vars

----------------------------------------------------------------------------
(* Overlapping approvals: approve_device awaits after reading the              *)
(* registration and again after looking the agent up by name, so another       *)
(* request can run at either point.  A unit of work keeps the registration     *)
(* row in id, the approving user in agent and the looked-up agent in output.   *)

\* approve_device up to the status check
approve_device_read(p, user_code, owner_id) ==
    /\ UNCHANGED wsVars
    /\ LET found == find_registration_by_user_code(registrations, user_code)
           reg == registrations[found[1]]
       IN /\ tx[p].pc = "idle"
          /\ IF found = None
             THEN /\ last' = Outcome("approve_device",
                                     DeviceFlowError("Unknown user code"), <<>>)
                  /\ UNCHANGED tx
             ELSE IF IsPastExpiry(reg, now)
             THEN /\ last' = Outcome("approve_device",
                                     DeviceFlowError("Device code has expired"), <<>>)
                  /\ UNCHANGED tx
             ELSE IF IsAlreadyUsed(reg.status)
             THEN /\ last' = Outcome("approve_device",
                                     DeviceFlowError("Device code already used"), <<>>)
                  /\ UNCHANGED tx
             ELSE /\ tx' = [tx EXCEPT ![p] =
                               UnitOfWork("approve_lookup", owner_id, found[1], now,
                                          <<>>, None, "")]
                  /\ UNCHANGED last
          /\ UNCHANGED <<now, commands, deliveries, devVars, key_returns>>

\* approve_device: find_agent_by_name
approve_device_lookup(p) ==
    /\ UNCHANGED wsVars
    /\ /\ tx[p].pc = "approve_lookup"
       /\ tx' = [tx EXCEPT ![p].pc = "approve_write",
                           ![p].output = find_agent_by_name(
                                             agents, registrations[tx[p].id].agent_name)]
       /\ UNCHANGED <<now, commands, deliveries, last, devVars, key_returns>>


no_unique_index(ags, name) == FALSE

\* the unique index on agents.name: an INSERT of a row with this name fails
unique_name_taken(ags, name) == \E i \in DOMAIN ags : ags[i].name = name

\* approve_device from create_agent to the return; inserting a second agent
\* with a name that is taken violates the unique index on agents.name
approve_device_commit(p) ==
    /\ UNCHANGED wsVars
    /\ LET n == tx[p].id
           reg == registrations[n]
           existing == tx[p].output
           agents_after == reuse_or_create_agent(agents, existing, reg.agent_name,
                                                 reg.robot_type, tx[p].agent, now)
           agent == IF existing # None THEN agents_after[existing[1]]
                    ELSE agents_after[Len(agents_after)]
           plaintext == generate_api_key(minted + 1)
       IN /\ tx[p].pc = "approve_write"
          /\ IF existing = None /\ unique_name_taken(agents, reg.agent_name)
             THEN /\ last' = Outcome("approve_device", "IntegrityError", <<>>)
                  /\ UNCHANGED <<devVars, key_returns>>
             ELSE /\ minted < MaxKeys
                  /\ agents' = agents_after
                  /\ minted' = minted + 1
                  /\ key_returns' = Append(key_returns, 0)
                  /\ api_keys' = create_api_key(api_keys, hash_key(plaintext), agent.id, now)
                  /\ registrations' =
                        [registrations EXCEPT ![n].status = "approved",
                                              ![n].api_key_plaintext = Some(plaintext),
                                              ![n].agent_id = Some(agent.id)]
                  /\ last' = Outcome("approve_device", "", <<agent.id, agent.name>>)
          /\ tx' = [tx EXCEPT ![p] = Idle]
          /\ UNCHANGED <<now, commands, deliveries>>

NextDeviceOverlap ==
    \/ DeviceTick
    \/ /\ Len(registrations) < MaxOverlapRegistrations
       /\ \E name \in AgentNames : start_device_flow(name, "px4")
    \/ \E n \in RegistrationIds : poll_device_flow(DeviceCode(n))
    \/ \E p \in Procs, n \in RegistrationIds, u \in UserIds :
          approve_device_read(p, UserCode(n), u)
    \/ \E p \in Procs : approve_device_lookup(p)
    \/ \E p \in Procs : approve_device_commit(p)

SpecDeviceOverlap == Init /\ [][NextDeviceOverlap]_vars

\* enrolments of one agent name approved by overlapping requests of one operator
NextSameName ==
    \/ DeviceTick
    \/ start_device_flow("bot1", "px4")
    \/ \E p \in Procs, n \in RegistrationIds : approve_device_read(p, UserCode(n), "u1")
    \/ \E p \in Procs : approve_device_lookup(p)
    \/ \E p \in Procs : approve_device_commit(p)

SpecSameName == Init /\ [][NextSameName]_vars

----------------------------------------------------------------------------
(* Properties of the queue under sequential calls (Spec) *)

Age(c) == now - commands[c].created_at

\* C1: a command is in the result of at most one poll_pending call; a poll for
\* its agent that finds it pending and within the TTL returns it (for the first
\* and only time), no poll returns a command that was returned before, and a
\* second poll right after returns the empty list.
C1_AtMostOnceSequential ==
    [][/\ \A c \in DOMAIN deliveries' : deliveries'[c] <= 1
       /\ \A a \in AgentIds :
            (last'.op = "poll_pending" /\ poll_pending(a)) =>
               /\ \A c \in PendingIds(commands, a) :
                     Age(c) <= command_ttl_seconds =>
                        /\ c \in Range(last'.val)
                        /\ deliveries[c] = 0
                        /\ deliveries'[c] = 1
               /\ \A c \in DOMAIN commands :
                     deliveries[c] >= 1 => c \notin Range(last'.val)
               /\ list_pending(commands', a) = {<<>>}]_vars

\* a command was delivered once, and a later poll came back empty
C1_Witness ==
    /\ last = Outcome("poll_pending", "", <<>>)
    /\ \E c \in DOMAIN commands :
          /\ commands[c].status = "in_progress"
          /\ deliveries[c] = 1

\* C3: once a command is acked or expired, no later call changes its row.
C3_TerminalAbsorbing ==
    [][\A c \in DOMAIN commands :
          commands[c].status \in {"acked", "expired"} =>
             /\ commands'[c].status = commands[c].status
             /\ commands'[c].result = commands[c].result
             /\ commands'[c].output = commands[c].output
             /\ commands'[c].delivered_at = commands[c].delivered_at
             /\ commands'[c].acked_at = commands[c].acked_at]_vars

\* a call was refused on a terminal command while one command is expired and
\* another acked
C3_Witness ==
    /\ last.err \in {"CommandAlreadyAckedError", "CommandNotInProgressError"}
    /\ \E c, d \in DOMAIN commands :
          /\ commands[c].status = "expired"
          /\ commands[d].status = "acked"

\* C4: a command becomes acked only from in_progress, never directly from
\* pending.
C4_AckedOnlyAfterInProgress ==
    [][\A c \in DOMAIN commands :
          (commands'[c].status = "acked" /\ commands[c].status # "acked")
             => commands[c].status = "in_progress"]_vars

\* C6: acknowledge on an acked or expired command of the calling agent raises
\* CommandAlreadyAckedError, append_output on it raises
\* CommandNotInProgressError, and neither changes any command row.
C6_AckExclusivity ==
    [][/\ last'.op = "acknowledge" =>
          \A a \in AgentIds, c \in DOMAIN commands, r \in Results :
             (/\ commands[c].agent_id = a
              /\ commands[c].status \in {"acked", "expired"}
              /\ acknowledge(a, c, r)) =>
                /\ last'.err = "CommandAlreadyAckedError"
                /\ commands' = commands
       /\ last'.op = "append_output" =>
          \A a \in AgentIds, c \in DOMAIN commands, t \in Texts :
             (/\ commands[c].agent_id = a
              /\ commands[c].status \in {"acked", "expired"}
              /\ append_output(a, c, t)) =>
                /\ last'.err = "CommandNotInProgressError"
                /\ commands' = commands]_vars

\* acknowledge was just refused and the only terminal command is an expired one
C6_Witness ==
    /\ last = Outcome("acknowledge", "CommandAlreadyAckedError", <<>>)
    /\ \E c \in DOMAIN commands : commands[c].status = "expired"
    /\ \A c \in DOMAIN commands : commands[c].status # "acked"

\* C7: poll_pending moves every pending command of the agent older than the TTL
\* to expired (delivered_at set, acked_at unset, not returned) and every other
\* pending command of the agent to in_progress (delivered_at set, returned);
\* none of them is pending afterwards.
C7_PollPartitionsByAge ==
    [][\A a \in AgentIds :
          (last'.op = "poll_pending" /\ poll_pending(a)) =>
             \A c \in PendingIds(commands, a) :
                /\ Age(c) > command_ttl_seconds =>
                      /\ commands'[c].status = "expired"
                      /\ commands'[c].delivered_at = Some(now)
                      /\ commands'[c].acked_at = None
                      /\ c \notin Range(last'.val)
                /\ Age(c) <= command_ttl_seconds =>
                      /\ commands'[c].status = "in_progress"
                      /\ commands'[c].delivered_at = Some(now)
                      /\ c \in Range(last'.val)
                /\ commands'[c].status # "pending"]_vars

\* one sweep expired an old command and delivered a young one
C7_Witness ==
    /\ last.op = "poll_pending"
    /\ \E c, d \in DOMAIN commands :
          /\ commands[c].status = "expired"
          /\ commands[d].status = "in_progress"
          /\ commands[c].delivered_at = Some(now)
          /\ commands[d].delivered_at = Some(now)
          /\ commands[c].agent_id = commands[d].agent_id
          /\ last.val = <<d>>

\* C8: a poll result is ordered by created_at, oldest first, and when a command
\* is delivered no command of the same agent that was enqueued before it is
\* left pending for a later poll.
C8_PerAgentFifo ==
    [][\A a \in AgentIds :
          (last'.op = "poll_pending" /\ poll_pending(a)) =>
             /\ \A i, j \in DOMAIN last'.val :
                   i < j => commands[last'.val[i]].created_at
                               <= commands[last'.val[j]].created_at
             /\ \A c \in Range(last'.val), d \in DOMAIN commands :
                   (commands[d].agent_id = a /\ d < c) =>
                      commands'[d].status # "pending"]_vars

\* one poll returned two commands created at different times, oldest first
C8_Witness ==
    /\ last.op = "poll_pending"
    /\ Len(last.val) = 2
    /\ commands[last.val[1]].created_at < commands[last.val[2]].created_at

----------------------------------------------------------------------------
(* Properties of the output buffer (SpecOutput) *)

\* C9: append_output succeeds exactly when the command exists, belongs to the
\* calling agent and is in_progress (on a pending command it raises
\* CommandNotInProgressError); a successful call appends its text to the end
\* of the buffer (an absent buffer becomes the text), and no other call changes
\* the buffer.
C9_AppendOutput ==
    [][/\ last'.op = "append_output" =>
          \A a \in AgentIds, c \in CommandIds, t \in Texts :
             append_output(a, c, t) =>
                /\ last'.err = "" <=>
                      /\ c \in DOMAIN commands
                      /\ commands[c].agent_id = a
                      /\ commands[c].status = "in_progress"
                /\ (/\ c \in DOMAIN commands
                    /\ commands[c].agent_id = a
                    /\ commands[c].status = "pending")
                      => last'.err = "CommandNotInProgressError"
                /\ last'.err = "" =>
                      /\ commands'[c].output = Some(Buffer(commands[c]) \o t)
                      /\ \A d \in DOMAIN commands \ {c} :
                            commands'[d].output = commands[d].output
                /\ last'.err # "" => commands' = commands
       /\ last'.op # "append_output" =>
          \A c \in DOMAIN commands : commands'[c].output = commands[c].output]_vars

\* two successful appends with different texts, in call order
C9_Witness ==
    /\ last = Outcome("append_output", "", <<>>)
    /\ \E c \in DOMAIN commands : commands[c].output = Some("xy")

----------------------------------------------------------------------------
(* Properties of the queue under overlapping requests (SpecOverlap) *)

\* C2: when poll_pending calls for one agent overlap, each command is still in
\* the result of at most one of them.
C2_AtMostOnceOverlap ==
    \A c \in DOMAIN deliveries : deliveries[c] <= 1

\* C5: a command that was delivered by a poll and then acked stays acked when
\* another poll that had read it as pending writes its batch update late.
C5_AckedSurvivesLateSweep ==
    [][\A c \in DOMAIN commands :
          (commands[c].status = "acked" /\ deliveries[c] >= 1) =>
             commands'[c].status = "acked"]_vars

----------------------------------------------------------------------------
(* Properties of the device flow (SpecDevice) *)

RegistrationFrame ==
    /\ \A n \in DOMAIN registrations :
          registrations[n].status # "pending" => registrations'[n] = registrations[n]
    /\ \A n \in DOMAIN registrations :
          registrations'[n].status # registrations[n].status =>
             /\ registrations[n].status = "pending"
             /\ registrations'[n].status \in {"approved", "denied"}

\* C10 as stated: a registration changes at most once, from pending to approved
\* or denied, and every approve_device on an approved registration fails with
\* DeviceFlowAlreadyUsedError and changes no registration, agent or key.
C10_ApproveOnceAlwaysAlreadyUsed ==
    [][/\ RegistrationFrame
       /\ last'.op = "approve_device" =>
          \A n \in DOMAIN registrations, u \in UserIds :
             (registrations[n].status = "approved" /\ approve_device(UserCode(n), u)) =>
                /\ last'.err = "DeviceFlowAlreadyUsedError"
                /\ UNCHANGED devVars]_vars

\* C10 amended: a registration changes at most once, from pending to approved
\* or denied, and every approve_device on an approved registration fails and
\* changes no registration, agent or key: with DeviceFlowAlreadyUsedError while
\* now is not past expires_at, with DeviceFlowExpiredError afterwards.
C10_ApproveOnce ==
    [][/\ RegistrationFrame
       /\ last'.op = "approve_device" =>
          \A n \in DOMAIN registrations, u \in UserIds :
             (registrations[n].status = "approved" /\ approve_device(UserCode(n), u)) =>
                /\ last'.err = IF now > registrations[n].expires_at
                               THEN "DeviceFlowExpiredError"
                               ELSE "DeviceFlowAlreadyUsedError"
                /\ UNCHANGED devVars]_vars

\* a second approve_device was refused as already used; one key was minted
C10_Witness ==
    /\ last = Outcome("approve_device", "DeviceFlowAlreadyUsedError", <<>>)
    /\ \E n \in DOMAIN registrations : registrations[n].status = "approved"
    /\ \A n \in DOMAIN registrations : now <= registrations[n].expires_at
    /\ minted = 1

\* C13: the plaintext of an API key is handed out once: no poll_device_flow
\* result carries a key that an earlier result already carried.
C13_PlaintextHandedOutOnce ==
    \A k \in DOMAIN key_returns : key_returns[k] <= 1

C15_ExpiryIsFinal ==
    [][\A n \in DOMAIN registrations :
          (registrations[n].status = "pending" /\ now > registrations[n].expires_at) =>
             /\ registrations'[n] = registrations[n]
             /\ last'.op = "approve_device" =>
                   \A u \in UserIds :
                      approve_device(UserCode(n), u) =>
                         /\ last'.err = "DeviceFlowExpiredError"
                         /\ UNCHANGED devVars
             /\ (last'.op = "deny_device" /\ deny_device(UserCode(n))) =>
                   /\ last'.err = "DeviceFlowExpiredError"
                   /\ UNCHANGED devVars
             /\ (last'.op = "poll_device_flow" /\ poll_device_flow(DeviceCode(n))) =>
                   /\ last' = Outcome("poll_device_flow", "", <<"expired">>)
                   /\ UNCHANGED devVars]_vars

\* approve_device was refused as expired on a registration that is still
\* pending, and nothing was ever created
C15_Witness ==
    /\ last = Outcome("approve_device", "DeviceFlowExpiredError", <<>>)
    /\ \E n \in DOMAIN registrations :
          /\ registrations[n].status = "pending"
          /\ now > registrations[n].expires_at
    /\ agents = <<>>
    /\ api_keys = <<>>

\* the error with which the code refuses to approve the registration of user
\* code n in the current state ("" when it does not refuse)
Refusal(n) ==
    IF n \notin DOMAIN registrations THEN "DeviceFlowNotFoundError"
    ELSE IF now > registrations[n].expires_at THEN "DeviceFlowExpiredError"
    ELSE IF registrations[n].status # "pending" THEN "DeviceFlowAlreadyUsedError"
    ELSE ""

DenyFrame ==
    /\ last'.op = "deny_device" =>
          /\ UNCHANGED <<agents, api_keys, minted>>
          /\ \A n \in RegistrationIds :
                deny_device(UserCode(n)) =>
                   /\ last'.err = Refusal(n)
                   /\ Refusal(n) = "" =>
                         registrations' = [registrations EXCEPT ![n].status = "denied"]
                   /\ Refusal(n) # "" => UNCHANGED registrations
    /\ last'.op = "approve_device" =>
          \A n \in RegistrationIds, u \in UserIds :
             approve_device(UserCode(n), u) => last'.err = Refusal(n)

\* C16 as stated: deny_device on a pending, unexpired registration sets status
\* to denied and creates no agent and no key; it is refused as approve_device
\* is; and approve_device on a denied registration always fails with
\* DeviceFlowAlreadyUsedError.
C16_DenyThenApproveAlwaysAlreadyUsed ==
    [][/\ DenyFrame
       /\ last'.op = "approve_device" =>
          \A n \in DOMAIN registrations, u \in UserIds :
             (registrations[n].status = "denied" /\ approve_device(UserCode(n), u)) =>
                /\ last'.err = "DeviceFlowAlreadyUsedError"
                /\ UNCHANGED devVars]_vars

\* C16 amended: deny_device on a pending, unexpired registration sets status to
\* denied and creates no agent and no key; it is refused with NotFound, Expired
\* or AlreadyUsed as approve_device is; and approve_device on a denied
\* registration fails, changing nothing, with DeviceFlowAlreadyUsedError while
\* now is not past expires_at and with DeviceFlowExpiredError afterwards.
C16_Deny ==
    [][/\ DenyFrame
       /\ last'.op = "approve_device" =>
          \A n \in DOMAIN registrations, u \in UserIds :
             (registrations[n].status = "denied" /\ approve_device(UserCode(n), u)) =>
                /\ last'.err = IF now > registrations[n].expires_at
                               THEN "DeviceFlowExpiredError"
                               ELSE "DeviceFlowAlreadyUsedError"
                /\ UNCHANGED devVars]_vars

\* approve_device was refused as already used on a denied registration; no
\* agent and no key exist
C16_Witness ==
    /\ last = Outcome("approve_device", "DeviceFlowAlreadyUsedError", <<>>)
    /\ registrations # <<>>
    /\ \A n \in DOMAIN registrations : registrations[n].status = "denied"
    /\ agents = <<>>
    /\ api_keys = <<>>

----------------------------------------------------------------------------
(* Properties of the device flow under overlapping approvals                   *)
(* (SpecDeviceOverlap)                                                          *)

ApprovedRegistrations == {n \in DOMAIN registrations : registrations[n].status = "approved"}

\* C11: when approve_device calls for one user code overlap, at most one of
\* them succeeds and at most one API key is minted for the registration: there
\* are never more keys than approved registrations.
C11_ApproveSingleShotOverlap ==
    Len(api_keys) <= Cardinality(ApprovedRegistrations)

----------------------------------------------------------------------------
(* Properties of one enrolment (SpecRoundTrip) *)

\* the registration whose stored plaintext is the given key
RegistrationsOfKey(api_key) ==
    {n \in DOMAIN registrations : registrations[n].api_key_plaintext = Some(api_key)}

\* C12: while now is not past expires_at, poll_device_flow answers
\* authorization_pending for a pending registration and, once approve_device
\* succeeded, complete with the stored key and the agent id approve_device
\* returned; resolve_api_key on that key returns that agent while the key is
\* not revoked.
C12_DeviceFlowRoundTrip ==
    [][/\ last'.op = "poll_device_flow" =>
          \A n \in DOMAIN registrations :
             (poll_device_flow(DeviceCode(n)) /\ now <= registrations[n].expires_at) =>
                /\ registrations[n].status = "pending" =>
                      last' = Outcome("poll_device_flow", "", <<"authorization_pending">>)
                /\ registrations[n].status = "approved" =>
                      /\ last'.err = ""
                      /\ last'.val[1] = "complete"
                      /\ Some(last'.val[2]) = registrations[n].api_key_plaintext
                      /\ Some(last'.val[3]) = registrations[n].agent_id
       /\ last'.op = "approve_device" =>
          \A n \in DOMAIN registrations, u \in UserIds :
             (approve_device(UserCode(n), u) /\ last'.err = "") =>
                /\ registrations'[n].status = "approved"
                /\ registrations'[n].agent_id = Some(last'.val[1])
                /\ registrations'[n].api_key_plaintext # None
       /\ last'.op = "resolve_api_key" =>
          \A k \in KeyIds : \A n \in RegistrationsOfKey(generate_api_key(k)) :
             (/\ resolve_api_key(generate_api_key(k))
              /\ \E i \in DOMAIN api_keys :
                    /\ api_keys[i].key_hash = hash_key(generate_api_key(k))
                    /\ ~api_keys[i].revoked) =>
                /\ last'.err = ""
                /\ Some(last'.val[1]) = registrations[n].agent_id]_vars

\* the key that a poll handed out resolved to the agent of its registration
C12_Witness ==
    /\ last.op = "resolve_api_key"
    /\ last.err = ""
    /\ \E n \in DOMAIN registrations :
          /\ registrations[n].status = "approved"
          /\ registrations[n].agent_id = Some(last.val[1])
          /\ key_returns[registrations[n].api_key_plaintext[1][2]] >= 1

----------------------------------------------------------------------------
(* Properties of agent reuse (SpecReuse) *)

AgentsNamed(ags, name) == {i \in DOMAIN ags : ags[i].name = name}

\* C17: approve_device returns the id of the one agent row that has the
\* registration's agent_name, creating the row only when no agent has that
\* name; so two approved registrations with the same agent_name carry the same
\* agent id and exactly one agent row has that name.
C17_NameReuse ==
    [][/\ last'.op = "approve_device" =>
          \A n \in DOMAIN registrations, u \in UserIds :
             (approve_device(UserCode(n), u) /\ last'.err = "") =>
                /\ AgentsNamed(agents', registrations[n].agent_name)
                      = {last'.val[1]}
                /\ agents'[last'.val[1]].id = last'.val[1]
                /\ AgentsNamed(agents, registrations[n].agent_name) # {} =>
                      AgentsNamed(agents, registrations[n].agent_name)
                         = {last'.val[1]}
       /\ \A m, n \in DOMAIN registrations' :
             (/\ registrations'[m].status = "approved"
              /\ registrations'[n].status = "approved"
              /\ registrations'[m].agent_name = registrations'[n].agent_name) =>
                /\ registrations'[m].agent_id = registrations'[n].agent_id
                /\ Cardinality(AgentsNamed(agents', registrations'[n].agent_name)) = 1]_vars

\* two registrations with one agent_name and different robot types are
\* approved and share the only agent row
C17_Witness ==
    /\ Len(agents) = 1
    /\ Len(api_keys) = 2
    /\ \E m, n \in DOMAIN registrations :
          /\ m # n
          /\ registrations[m].status = "approved"
          /\ registrations[n].status = "approved"
          /\ registrations[m].agent_name = registrations[n].agent_name
          /\ registrations[m].agent_id = registrations[n].agent_id
    /\ last = Outcome("approve_device", "", <<1, agents[1].name>>)
    /\ agents[1].owner_id = "u1"
    /\ \E n \in DOMAIN registrations : registrations[n].robot_type # agents[1].robot_type

\* C18: an approve_device that finds an agent with the registration's
\* agent_name leaves the agents table as it is (robot_type and owner_id
\* included), whoever approves and whatever the stored owner; it writes one new
\* api_keys row and the registration row only.
C18_ReuseLeavesAgentUnchanged ==
    [][last'.op = "approve_device" =>
          \A n \in DOMAIN registrations, u \in UserIds :
             (/\ approve_device(UserCode(n), u)
              /\ last'.err = ""
              /\ AgentsNamed(agents, registrations[n].agent_name) # {}) =>
                /\ agents' = agents
                /\ \A i \in AgentsNamed(agents, registrations[n].agent_name) :
                      /\ agents'[i].robot_type = agents[i].robot_type
                      /\ agents'[i].owner_id = agents[i].owner_id
                /\ Len(api_keys') = Len(api_keys) + 1
                /\ SubSeq(api_keys', 1, Len(api_keys)) = api_keys
                /\ \A m \in DOMAIN registrations \ {n} :
                      registrations'[m] = registrations[m]]_vars

\* an approval reused an agent that has no owner and another robot type
C18_Witness ==
    /\ last.op = "approve_device"
    /\ last.err = ""
    /\ \E n \in DOMAIN registrations :
          /\ registrations[n].status = "approved"
          /\ registrations[n].agent_id = Some(last.val[1])
          /\ agents[last.val[1]].owner_id = ""
          /\ agents[last.val[1]].robot_type # registrations[n].robot_type

----------------------------------------------------------------------------
(* Properties of the agent directory (SpecDirectory) *)

LiveKeys(keys, agent_id) ==
    {i \in DOMAIN keys : keys[i].agent_id = agent_id /\ ~keys[i].revoked}

\* C19: a successful revoke_agent_key returns the number of keys of the agent
\* that were not revoked, which is never negative, and leaves every key of the
\* agent revoked and every other key as it was; the agent row is untouched, so
\* the same call repeated at once succeeds and returns 0.  The number of live
\* keys of an agent grows only in a step that mints a key.
C19_IdempotentRevoke ==
    [][/\ last'.op = "revoke_agent_key" =>
          \A a \in RegistrationIds, u \in UserIds :
             (revoke_agent_key(a, u) /\ last'.err = "") =>
                /\ last'.val = <<Cardinality(LiveKeys(api_keys, a))>>
                /\ last'.val[1] >= 0
                /\ LiveKeys(api_keys', a) = {}
                /\ \A i \in DOMAIN api_keys :
                      api_keys[i].agent_id # a => api_keys'[i] = api_keys[i]
                /\ DOMAIN api_keys' = DOMAIN api_keys
                /\ agents' = agents
       /\ \A a \in RegistrationIds :
             Cardinality(LiveKeys(api_keys', a)) > Cardinality(LiveKeys(api_keys, a))
                => minted' = minted + 1]_vars

\* a revoke returned 0 because the keys of the agent were revoked before
C19_Witness ==
    /\ last = Outcome("revoke_agent_key", "", <<0>>)
    /\ \E i \in DOMAIN api_keys : api_keys[i].revoked

\* C20: a key row is never removed and its revoked flag never returns to
\* false; a successful revoke_agent_key leaves every key of the agent revoked;
\* and resolve_api_key on a revoked key fails with "Invalid API key" and
\* changes nothing.
C20_RevokedKeysNeverResolve ==
    [][/\ \A i \in DOMAIN api_keys :
             /\ i \in DOMAIN api_keys'
             /\ api_keys'[i].key_hash = api_keys[i].key_hash
             /\ api_keys'[i].agent_id = api_keys[i].agent_id
             /\ api_keys[i].revoked => api_keys'[i].revoked
       /\ last'.op = "revoke_agent_key" =>
          \A a \in RegistrationIds, u \in UserIds :
             (revoke_agent_key(a, u) /\ last'.err = "") =>
                \A i \in DOMAIN api_keys :
                   api_keys[i].agent_id = a => api_keys'[i].revoked
       /\ last'.op = "resolve_api_key" =>
          \A k \in KeyIds :
             (/\ resolve_api_key(generate_api_key(k))
              /\ \E i \in DOMAIN api_keys :
                    /\ api_keys[i].key_hash = hash_key(generate_api_key(k))
                    /\ api_keys[i].revoked) =>
                /\ last'.err = "Invalid API key"
                /\ UNCHANGED devVars]_vars

\* every key that can be presented was minted and revoked, and a
\* resolve_api_key was refused
C20_Witness ==
    /\ last = Outcome("resolve_api_key", "Invalid API key", <<>>)
    /\ minted = MaxRegistrations
    /\ \A i \in DOMAIN api_keys : api_keys[i].revoked

\* the plaintext keys resolve_api_key accepts: the hash is that of a key row
\* that is not revoked and whose agent row exists
Resolving(keys, ags) ==
    {k \in KeyIds :
        \E i \in DOMAIN keys :
           /\ keys[i].key_hash = hash_key(generate_api_key(k))
           /\ ~keys[i].revoked
           /\ \E j \in DOMAIN ags : ags[j].id = keys[i].agent_id}

\* C21: revoke_agent_key on an agent id that has no row fails with
\* AgentNotFoundError, and on an agent whose stored owner_id differs from the
\* requester with AgentNotOwnedError; a failed call leaves every key row (its
\* revoked flag included) and every agent row as it was, so the keys that
\* resolved before still resolve.
C21_RevokeRefusals ==
    [][last'.op = "revoke_agent_key" =>
          \A a \in RegistrationIds, u \in UserIds :
             revoke_agent_key(a, u) =>
                /\ (\A j \in DOMAIN agents : agents[j].id # a) =>
                      last'.err = "AgentNotFoundError"
                /\ (\E j \in DOMAIN agents :
                       agents[j].id = a /\ agents[j].owner_id # u) =>
                      last'.err = "AgentNotOwnedError"
                /\ last'.err # "" =>
                      /\ api_keys' = api_keys
                      /\ agents' = agents
                      /\ registrations' = registrations
                      /\ Resolving(api_keys', agents') = Resolving(api_keys, agents)]_vars

\* a revoke by someone who is not the owner was refused while a key of an
\* agent is live and resolves, and an agent id is still unused
C21_Witness ==
    /\ last = Outcome("revoke_agent_key", "AgentNotOwnedError", <<>>)
    /\ Resolving(api_keys, agents) # {}
    /\ Len(agents) < MaxRegistrations

----------------------------------------------------------------------------
(* Properties of credentials (SpecCredential) *)

\* the key rows resolve_api_key may pick for a plaintext
LiveRows(keys, plaintext) ==
    {i \in DOMAIN keys : keys[i].key_hash = hash_key(plaintext) /\ ~keys[i].revoked}

AgentRows(ags, agent_id) == {j \in DOMAIN ags : ags[j].id = agent_id}

\* C22: resolve_api_key raises ValueError("Invalid API key") when no key row
\* that is not revoked has the hash of the plaintext, and
\* ValueError("Agent not found for API key") when the row's agent is missing;
\* in both cases no row changes.  Otherwise it returns the agent the key row
\* is bound to, sets that agent's last_seen_at to now and changes nothing
\* else: no other column, no other agent, no key, no registration.
C22_ResolveKey ==
    [][last'.op = "resolve_api_key" =>
          \A k \in KeyIds :
             resolve_api_key(generate_api_key(k)) =>
                LET live == LiveRows(api_keys, generate_api_key(k))
                IN /\ live = {} =>
                         /\ last'.err = "Invalid API key"
                         /\ UNCHANGED devVars
                   /\ \A i \in live :
                         /\ AgentRows(agents, api_keys[i].agent_id) = {} =>
                               /\ last'.err = "Agent not found for API key"
                               /\ UNCHANGED devVars
                         /\ \A j \in AgentRows(agents, api_keys[i].agent_id) :
                               /\ last' = Outcome("resolve_api_key", "",
                                                  <<api_keys[i].agent_id>>)
                               /\ agents' = [agents EXCEPT ![j].last_seen_at = Some(now)]
                               /\ UNCHANGED <<registrations, api_keys, minted>>]_vars

\* a key whose agent row was deleted was refused, while another agent that
\* has never been seen exists
C22_Witness ==
    /\ last = Outcome("resolve_api_key", "Agent not found for API key", <<>>)
    /\ \E i \in DOMAIN api_keys :
          ~api_keys[i].revoked /\ AgentRows(agents, api_keys[i].agent_id) = {}
    /\ \E j \in DOMAIN agents : agents[j].id # 0 /\ agents[j].last_seen_at = None

\* C26: agent_logout with a key that resolves succeeds whatever the owner_id
\* of the agent (the empty one included): it returns the number of keys of
\* the agent that were not revoked, which is at least 1, leaves every key of
\* the agent revoked and the keys of other agents as they were, and the key
\* presented no longer resolves.
C26_AgentLogout ==
    [][last'.op = "agent_logout" =>
          \A k \in KeyIds :
             (agent_logout(generate_api_key(k)) /\ k \in Resolving(api_keys, agents)) =>
                \A i \in LiveRows(api_keys, generate_api_key(k)) :
                   LET a == api_keys[i].agent_id
                   IN /\ last'.err = ""
                      /\ last'.val = <<Cardinality(LiveKeys(api_keys, a))>>
                      /\ last'.val[1] >= 1
                      /\ LiveKeys(api_keys', a) = {}
                      /\ \A m \in DOMAIN api_keys :
                            api_keys[m].agent_id # a => api_keys'[m] = api_keys[m]
                      /\ k \notin Resolving(api_keys', agents')
                      /\ LiveRows(api_keys', generate_api_key(k)) = {}]_vars

\* an agent without an owner logged out and both of its keys were revoked
C26_Witness ==
    /\ last = Outcome("agent_logout", "", <<2>>)
    /\ \E j \in DOMAIN agents :
          /\ agents[j].owner_id = ""
          /\ agents[j].id # 0
          /\ Cardinality({i \in DOMAIN api_keys :
                             api_keys[i].agent_id = agents[j].id /\ api_keys[i].revoked}) = 2

----------------------------------------------------------------------------
(* Properties of start_device_flow (SpecDevice) *)

\* C23: start_device_flow appends one registration with status pending, no
\* key and no agent, device and user codes no earlier registration has, and
\* expires_at = now + 15 minutes, whether or not an agent of that name exists;
\* it changes no earlier registration, no agent and no key.  A registration
\* leaves pending only in a successful approve_device or deny_device on it,
\* and becomes approved only in the former; until then poll_device_flow on it
\* hands out no key: it returns authorization_pending up to expires_at and
\* expired after it.
C23_StartGrantsNothing ==
    [][/\ last'.op = "start_device_flow" =>
          \A name \in AgentNames, rt \in RobotTypes :
             start_device_flow(name, rt) =>
                LET n == Len(registrations) + 1
                IN /\ Len(registrations') = n
                   /\ registrations'[n].status = "pending"
                   /\ registrations'[n].api_key_plaintext = None
                   /\ registrations'[n].agent_id = None
                   /\ registrations'[n].agent_name = name
                   /\ registrations'[n].expires_at = now + expire_minutes * 60
                   /\ \A m \in DOMAIN registrations :
                         /\ registrations'[m] = registrations[m]
                         /\ registrations[m].device_code # registrations'[n].device_code
                         /\ registrations[m].user_code # registrations'[n].user_code
                   /\ agents' = agents
                   /\ api_keys' = api_keys
                   /\ minted' = minted
       /\ \A n \in DOMAIN registrations :
             (registrations[n].status = "pending"
                 /\ registrations'[n].status # "pending") =>
                /\ last'.err = ""
                /\ \/ /\ last'.op = "approve_device"
                      /\ registrations'[n].status = "approved"
                   \/ /\ last'.op = "deny_device"
                      /\ registrations'[n].status = "denied"
       /\ last'.op = "poll_device_flow" =>
          \A n \in DOMAIN registrations :
             (poll_device_flow(DeviceCode(n)) /\ registrations[n].status = "pending") =>
                /\ last'.err = ""
                /\ now <= registrations[n].expires_at =>
                      last'.val = <<"authorization_pending">>
                /\ now > registrations[n].expires_at => last'.val = <<"expired">>
                /\ UNCHANGED devVars]_vars

\* the second registration of an agent name that was approved before is
\* pending and was just polled: the answer is authorization_pending
C23_Witness ==
    /\ last = Outcome("poll_device_flow", "", <<"authorization_pending">>)
    /\ Len(registrations) = 2
    /\ registrations[1].status = "approved"
    /\ registrations[2].status = "pending"
    /\ registrations[2].agent_name = registrations[1].agent_name
    /\ \E j \in DOMAIN agents : agents[j].name = registrations[2].agent_name
    /\ Len(api_keys) = 1

----------------------------------------------------------------------------
(* Properties of the queues of two agents (SpecIsolation) *)

\* C24: acknowledge, append_output and get_command called with an agent id
\* other than the command's agent_id raise CommandNotFoundError, with the
\* same outcome as the call on a command id that does not exist, and change
\* no command row.
C24_CrossAgentIsolation ==
    [][/\ last'.op = "acknowledge" =>
          \A a \in AgentIds, c \in CommandIds, r \in Results :
             (/\ acknowledge(a, c, r)
              /\ c \in DOMAIN commands => commands[c].agent_id # a) =>
                /\ last' = Outcome("acknowledge", "CommandNotFoundError", <<>>)
                /\ commands' = commands
       /\ last'.op = "append_output" =>
          \A a \in AgentIds, c \in CommandIds, t \in Texts :
             (/\ append_output(a, c, t)
              /\ c \in DOMAIN commands => commands[c].agent_id # a) =>
                /\ last' = Outcome("append_output", "CommandNotFoundError", <<>>)
                /\ commands' = commands
       /\ last'.op = "get_command" =>
          \A a \in AgentIds, c \in CommandIds :
             (/\ get_command(a, c)
              /\ c \in DOMAIN commands => commands[c].agent_id # a) =>
                /\ last' = Outcome("get_command", "CommandNotFoundError", <<>>)
                /\ commands' = commands]_vars

\* an acknowledge was refused as not found while every command id exists, one
\* command being in_progress for one agent and one for the other
C24_Witness ==
    /\ last = Outcome("acknowledge", "CommandNotFoundError", <<>>)
    /\ Len(commands) = MaxCommands
    /\ \E c, d \in DOMAIN commands :
          /\ commands[c].agent_id # commands[d].agent_id
          /\ commands[c].status = "in_progress"
          /\ commands[d].status = "in_progress"

----------------------------------------------------------------------------
(* Properties of the enqueue request (SpecEnqueue) *)

\* C25: an enqueue request whose type is empty or consists of whitespace only
\* is refused with InvalidArgument and creates no command; with any other type
\* it adds exactly one command, for the agent named, with status pending and
\* result, delivered_at and acked_at unset, and leaves the other commands as
\* they were.
C25_EnqueueValidatesType ==
    [][last'.op = "queue_command" =>
          \A t \in RawTypes, p \in Payloads :
             post_agent_command("a1", t, p) =>
                /\ (\A i \in DOMAIN t : t[i] \in Whitespace) =>
                      /\ last'.err = "InvalidArgument"
                      /\ commands' = commands
                /\ (\E i \in DOMAIN t : t[i] \notin Whitespace) =>
                      LET c == Len(commands) + 1
                      IN /\ last'.err = ""
                         /\ Len(commands') = c
                         /\ SubSeq(commands', 1, c - 1) = commands
                         /\ commands'[c].agent_id = "a1"
                         /\ commands'[c].status = "pending"
                         /\ commands'[c].result = None
                         /\ commands'[c].delivered_at = None
                         /\ commands'[c].acked_at = None
                         /\ commands'[c].payload = p]_vars

\* a request with a blank type was refused after a command had been created,
\* and the table still has that one command
C25_Witness ==
    /\ last = Outcome("queue_command", "InvalidArgument", <<>>)
    /\ Len(commands) = 1
    /\ commands[1].status = "pending"

----------------------------------------------------------------------------
(* Properties of overlapping approvals of one agent name (SpecSameName) *)

\* an approved registration has its agent and its key, and only an approved
\* one has them
ApprovedConsistent(regs, ags, keys) ==
    \A n \in DOMAIN regs :
       /\ regs[n].status = "approved"
             <=> (regs[n].agent_id # None /\ regs[n].api_key_plaintext # None)
       /\ regs[n].status = "approved" =>
             /\ \E i \in DOMAIN keys :
                   /\ keys[i].key_hash = hash_key(regs[n].api_key_plaintext[1])
                   /\ keys[i].agent_id = regs[n].agent_id[1]
             /\ \E j \in DOMAIN ags :
                   /\ ags[j].id = regs[n].agent_id[1]
                   /\ ags[j].name = regs[n].agent_name

\* C27: in every reachable state, also between the steps of overlapping
\* approvals, a registration is approved if and only if its agent_id and its
\* api_key_plaintext are both set, and then a key row with the hash of that
\* plaintext is bound to that agent_id and an agent with that id and the
\* registration's agent_name exists; an approve_device that fails (unknown
\* code, expired, already used, or the unique index on the agent name)
\* changes no registration, agent or key.
C27_ApproveAllOrNothing ==
    [][/\ ApprovedConsistent(registrations', agents', api_keys')
       /\ (last'.op = "approve_device" /\ last'.err # "") => UNCHANGED devVars
       /\ \A n \in DOMAIN registrations :
             registrations'[n] # registrations[n] =>
                /\ last' = Outcome("approve_device", "",
                                   <<registrations'[n].agent_id[1],
                                     registrations'[n].agent_name>>)
                /\ Len(api_keys') = Len(api_keys) + 1]_vars

\* one approval went through and an overlapping approval of the other
\* registration then failed on the unique index, leaving that registration
\* pending without agent or key
C27_Witness ==
    /\ last = Outcome("approve_device", "IntegrityError", <<>>)
    /\ Len(agents) = 1
    /\ Len(api_keys) = 1
    /\ \E m, n \in DOMAIN registrations :
          /\ registrations[m].status = "approved"
          /\ registrations[n].status = "pending"
          /\ registrations[n].agent_id = None
          /\ registrations[n].api_key_plaintext = None

\* C29: whatever the interleaving of approvals of registrations that carry
\* one agent name, the agents table never holds two rows of that name; an
\* approval that succeeds returns the id of the one row of that name and
\* stores it in the registration, and an approval that looked the name up
\* before the row existed and inserts after fails on the unique index without
\* writing.
C29_UniqueNameOverlap ==
    [][/\ \A name \in AgentNames : Cardinality(AgentsNamed(agents', name)) <= 1
       /\ \A p \in Procs :
             approve_device_commit(p) =>
                LET n == tx[p].id
                    name == registrations[n].agent_name
                IN /\ last'.err = "" =>
                         /\ AgentsNamed(agents', name) = {last'.val[1]}
                         /\ registrations'[n].agent_id = Some(last'.val[1])
                         /\ AgentsNamed(agents, name) # {} =>
                               AgentsNamed(agents, name) = {last'.val[1]}
                   /\ (tx[p].output = None /\ AgentsNamed(agents, name) # {}) =>
                         /\ last'.err = "IntegrityError"
                         /\ UNCHANGED devVars]_vars

\* both registrations of the name are approved for the one agent row, while
\* an approval that found no row of the name at its lookup has yet to insert
C29_Witness ==
    /\ Len(registrations) = 2
    /\ \A n \in DOMAIN registrations :
          /\ registrations[n].status = "approved"
          /\ registrations[n].agent_id = Some(1)
    /\ Cardinality(AgentsNamed(agents, "bot1")) = 1
    /\ Len(api_keys) = 2
    /\ last = Outcome("approve_device", "", <<1, "bot1">>)
    /\ \E p \in Procs : tx[p].pc = "approve_write" /\ tx[p].output = None

----------------------------------------------------------------------------
(* Properties of enqueue during a sweep (SpecEnqueueDuringSweep) *)

\* C28: with enqueue requests arriving while a sweep of the agent's poller is
\* between its read and its writes, no command is in more than one poll
\* result; when the sweep writes, a pending command it has read is expired or
\* delivered (in_progress exactly when it is in the result), and a pending
\* command enqueued after the read is not in the result and stays exactly as
\* it was; the read of the next sweep lists every pending command of the
\* agent; and a command becomes in_progress only in the sweep that returns it.
C28_EnqueueDuringSweep ==
    [][/\ \A c \in DOMAIN deliveries' : deliveries'[c] <= 1
       /\ \A p \in Procs :
             poll_pending_commit(p) =>
                \A c \in PendingIds(commands, tx[p].agent) :
                   IF c \in Range(tx[p].listed)
                   THEN /\ commands'[c].status \in {"in_progress", "expired"}
                        /\ commands'[c].status = "in_progress"
                              <=> c \in Range(last'.val)
                   ELSE /\ commands'[c] = commands[c]
                        /\ c \notin Range(last'.val)
                        /\ deliveries'[c] = deliveries[c]
       /\ \A p \in Procs :
             poll_pending_read(p, "a1") =>
                Range(tx'[p].listed) = PendingIds(commands, "a1")
       /\ \A c \in DOMAIN commands :
             (commands[c].status = "pending" /\ commands'[c].status = "in_progress") =>
                /\ last'.op = "poll_pending"
                /\ c \in Range(last'.val)
                /\ deliveries'[c] = 1]_vars

\* a sweep returned the first command and left the second pending: the second
\* was created after the sweep's read, no later than the sweep's writes
C28_Witness ==
    /\ last = Outcome("poll_pending", "", <<1>>)
    /\ Len(commands) = 2
    /\ commands[1].status = "in_progress"
    /\ commands[2].status = "pending"
    /\ commands[2].created_at <= commands[1].delivered_at[1]
    /\ deliveries = <<1, 0>>

----------------------------------------------------------------------------
(* Properties of the refusals of approve_device (SpecDevice) *)

\* C30: approve_device tests unknown code, then expiry, then status: an
\* unknown user code gives DeviceFlowNotFoundError; a registration past its
\* expires_at gives DeviceFlowExpiredError whatever its status, an approved
\* one included; one within its TTL that is not pending gives
\* DeviceFlowAlreadyUsedError; a pending one within its TTL is approved.  A
\* refused call writes no registration, agent or key.
C30_ApproveCheckOrder ==
    [][last'.op = "approve_device" =>
          \A n \in RegistrationIds, u \in UserIds :
             approve_device(UserCode(n), u) =>
                /\ n \notin DOMAIN registrations =>
                      last'.err = "DeviceFlowNotFoundError"
                /\ n \in DOMAIN registrations =>
                      /\ now > registrations[n].expires_at =>
                            last'.err = "DeviceFlowExpiredError"
                      /\ (now <= registrations[n].expires_at
                             /\ registrations[n].status # "pending") =>
                            last'.err = "DeviceFlowAlreadyUsedError"
                      /\ (now <= registrations[n].expires_at
                             /\ registrations[n].status = "pending") =>
                            last'.err = ""
                /\ last'.err # "" => UNCHANGED <<devVars, key_returns>>]_vars

\* an approval was refused as expired while every user code in use belongs to
\* a registration that is approved and past its TTL
C30_Witness ==
    /\ last = Outcome("approve_device", "DeviceFlowExpiredError", <<>>)
    /\ Len(registrations) = MaxRegistrations
    /\ \A n \in DOMAIN registrations :
          /\ registrations[n].status = "approved"
          /\ now > registrations[n].expires_at

----------------------------------------------------------------------------
(* Properties of the command rows under sequential calls (Spec) *)

\* C31: in every reachable state a pending command has delivered_at,
\* acked_at and result unset; an in_progress command has delivered_at set and
\* acked_at and result unset; an expired command has delivered_at set and
\* acked_at and result unset; an acked command has acked_at and result set.
C31_FieldConsistency ==
    \A c \in DOMAIN commands :
       /\ commands[c].status \in Statuses
       /\ commands[c].status = "pending" =>
             /\ commands[c].delivered_at = None
             /\ commands[c].acked_at = None
             /\ commands[c].result = None
       /\ commands[c].status = "in_progress" =>
             /\ commands[c].delivered_at # None
             /\ commands[c].acked_at = None
             /\ commands[c].result = None
       /\ commands[c].status = "expired" =>
             /\ commands[c].delivered_at # None
             /\ commands[c].acked_at = None
             /\ commands[c].result = None
       /\ commands[c].status = "acked" =>
             /\ commands[c].acked_at # None
             /\ commands[c].result # None

\* one command was delivered and then acknowledged, another was swept as
\* expired
C31_Witness ==
    \E c, d \in DOMAIN commands :
       /\ commands[c].status = "acked"
       /\ commands[c].delivered_at # None
       /\ commands[c].acked_at # None
       /\ commands[d].status = "expired"
       /\ commands[d].delivered_at # None

----------------------------------------------------------------------------
(* Properties of the operator's listing (SpecList) *)

\* C32: list_commands returns, each once and ordered by created_at, exactly
\* the commands whose agent_id is the agent given and, when a status is
\* given, whose status is that status now; it changes no command.  No call
\* removes a command or changes its agent_id, so acked and expired commands
\* stay listed.
C32_ListByAgent ==
    [][/\ last'.op = "list_commands" =>
          \A a \in AgentIds, s \in {None} \cup {Some(st) : st \in Statuses} :
             list_commands(a, s) =>
                /\ Range(last'.val) =
                      {c \in DOMAIN commands :
                          /\ commands[c].agent_id = a
                          /\ s # None => commands[c].status = s[1]}
                /\ \A i, j \in DOMAIN last'.val :
                      i < j => /\ last'.val[i] # last'.val[j]
                               /\ commands[last'.val[i]].created_at
                                     <= commands[last'.val[j]].created_at
                /\ commands' = commands
       /\ \A c \in DOMAIN commands :
             /\ c \in DOMAIN commands'
             /\ commands'[c].agent_id = commands[c].agent_id
             /\ commands'[c].created_at = commands[c].created_at
             /\ commands[c].status \in {"acked", "expired"} =>
                   commands'[c].status = commands[c].status]_vars

\* a listing returned one of the two commands of an agent, an acked one, the
\* other being expired: a status filter was given
C32_Witness ==
    /\ last.op = "list_commands"
    /\ Len(last.val) = 1
    /\ Len(commands) = 2
    /\ commands[1].agent_id = commands[2].agent_id
    /\ commands[last.val[1]].status = "acked"
    /\ \E c \in DOMAIN commands : commands[c].status = "expired"

----------------------------------------------------------------------------
(* Properties of the queue of an agent that keeps polling (SpecPolling) *)

\* C33: when the agent keeps polling, every pending command of the agent is
\* eventually in_progress or expired.
C33_PollingEmptiesPending ==
    \A c \in CommandIds :
       (c \in DOMAIN commands /\ commands[c].status = "pending")
          ~> (c \in DOMAIN commands /\ commands[c].status \in {"in_progress", "expired"})

\* C34: poll_pending for an agent leaves every command of every other agent
\* exactly as it was (status, timestamps, output and result included) and
\* returns no command of another agent.
C34_PollTouchesOneAgent ==
    [][last'.op = "poll_pending" =>
          \A a \in AgentIds :
             poll_pending(a) =>
                /\ \A c \in DOMAIN commands :
                      commands[c].agent_id # a =>
                         /\ commands'[c] = commands[c]
                         /\ deliveries'[c] = deliveries[c]
                         /\ c \notin Range(last'.val)
                /\ \A c \in Range(last'.val) : commands[c].agent_id = a
                /\ DOMAIN commands' = DOMAIN commands]_vars

\* a poll delivered the command of one agent while the command of the other
\* agent, older than the TTL, is still pending
C34_Witness ==
    /\ last.op = "poll_pending"
    /\ Len(last.val) = 1
    /\ \E c \in DOMAIN commands :
          /\ commands[c].agent_id # commands[last.val[1]].agent_id
          /\ commands[c].status = "pending"
          /\ now - commands[c].created_at > command_ttl_seconds

----------------------------------------------------------------------------
(* Properties of a command's columns over its life (SpecLifecycle) *)

\* C35: no call removes a command or changes its id, agent_id, type, payload
\* or created_at; its result changes only in a successful acknowledge that
\* finds it unset, and a result that is set never changes again.
C35_ImmutableColumns ==
    [][\A c \in DOMAIN commands :
          /\ c \in DOMAIN commands'
          /\ commands'[c].id = commands[c].id
          /\ commands'[c].agent_id = commands[c].agent_id
          /\ commands'[c].type = commands[c].type
          /\ commands'[c].payload = commands[c].payload
          /\ commands'[c].created_at = commands[c].created_at
          /\ commands[c].result # None => commands'[c].result = commands[c].result
          /\ commands'[c].result # commands[c].result =>
                /\ last' = Outcome("acknowledge", "", <<>>)
                /\ commands'[c].status = "acked"
                /\ commands'[c].result # None]_vars

\* an acknowledge was refused as already acknowledged while the only terminal
\* commands are acked ones with the result "ok", and a payload is stored
C35_Witness ==
    /\ last = Outcome("acknowledge", "CommandAlreadyAckedError", <<>>)
    /\ \E c \in DOMAIN commands :
          /\ commands[c].status = "acked"
          /\ commands[c].payload # None
    /\ \A c \in DOMAIN commands :
          /\ commands[c].status # "expired"
          /\ commands[c].status = "acked" => commands[c].result = Some(JsonDumps("ok"))

----------------------------------------------------------------------------
(* Properties of the read operations (SpecReads) *)

ReadOperations ==
    {"poll_device_flow", "device_page", "list_agents", "list_commands", "get_command"}

\* C36: poll_device_flow, device_page, list_agents, list_commands and
\* get_command change no registration, agent, key or command, whether they
\* return a value or fail.
C36_ReadsArePure ==
    [][/\ last'.op \in ReadOperations =>
          /\ registrations' = registrations
          /\ agents' = agents
          /\ api_keys' = api_keys
          /\ commands' = commands
       /\ \A n \in RegistrationIds :
             (poll_device_flow(DeviceCode(n)) \/ device_page(UserCode(n))) =>
                /\ last'.op \in ReadOperations
                /\ UNCHANGED <<devVars, commands>>
       /\ \A u \in UserIds : list_agents(u) => UNCHANGED <<devVars, commands>>]_vars

\* a poll returned the key of an approved registration, with an agent, a key
\* and a command stored
C36_Witness ==
    /\ last.op = "poll_device_flow"
    /\ Len(last.val) = 3
    /\ last.val[1] = "complete"
    /\ \E n \in DOMAIN registrations : registrations[n].api_key_plaintext = Some(last.val[2])
    /\ Len(agents) = 1
    /\ Len(api_keys) = 1
    /\ Len(commands) = 1

----------------------------------------------------------------------------
(* Properties of approvals on the key table (SpecDirectory) *)

\* the agents a plaintext key resolves to
ResolvesTo(keys, ags, k) ==
    {keys[i].agent_id : i \in {j \in LiveRows(keys, generate_api_key(k)) :
                                  AgentRows(ags, keys[j].agent_id) # {}}}

\* C37: a successful approve_device leaves every existing key row as it was
\* and adds one row, not revoked, for the agent it returns; every key that
\* resolved before resolves to the same agent afterwards, and the new key
\* resolves to the agent returned, also when the agent already had keys from
\* earlier approvals of the same name.
C37_ApproveKeepsKeys ==
    [][last'.op = "approve_device" =>
          \A n \in RegistrationIds, u \in UserIds :
             (approve_device(UserCode(n), u) /\ last'.err = "") =>
                /\ Len(api_keys') = Len(api_keys) + 1
                /\ \A i \in DOMAIN api_keys : api_keys'[i] = api_keys[i]
                /\ api_keys'[Len(api_keys')].agent_id = last'.val[1]
                /\ api_keys'[Len(api_keys')].revoked = FALSE
                /\ \A k \in KeyIds :
                      ResolvesTo(api_keys, agents, k) # {} =>
                         ResolvesTo(api_keys', agents', k) = ResolvesTo(api_keys, agents, k)
                /\ ResolvesTo(api_keys', agents', minted') = {last'.val[1]}]_vars

\* the second enrolment of an agent name was just approved and both keys of
\* the agent resolve to it
C37_Witness ==
    /\ last.op = "approve_device"
    /\ last.err = ""
    /\ Len(agents) = 1
    /\ \A n \in DOMAIN registrations : registrations[n].status = "approved"
    /\ Len(registrations) = 2
    /\ ResolvesTo(api_keys, agents, 1) = {last.val[1]}
    /\ ResolvesTo(api_keys, agents, 2) = {last.val[1]}

----------------------------------------------------------------------------
(* Properties of overlapping append_output calls (SpecOverlap) *)

\* C38: an append_output that writes adds its text to the end of the buffer
\* as it is when the write happens, so that of two calls that both read the
\* buffer before either commits, both texts are in the buffer at the end.
C38_NoLostAppend ==
    [][\A p \in Procs :
          append_output_commit(p) =>
             Buffer(commands'[tx[p].id]) = Buffer(commands[tx[p].id]) \o tx[p].arg]_vars

-----------------------------------------------------------------------------
(* The WebSocket session: logins and administration of users next to one
   connection. *)

NextWebSocket ==
    \/ websocket_endpoint
    \/ \E message \in Messages : run(message)
    \/ client_disconnect
    \/ \E user_id \in UserIds, name \in UserNames : find_or_create_user(user_id, name)
    \/ \E user_id \in UserIds : deactivate_user(user_id)
    \/ \E user_id \in UserIds : delete_user(user_id)

SpecWebSocket == Init /\ [][NextWebSocket]_vars

\* the message carries a token this server signed, not expired, whose sub is
\* the id of a user that exists and is active
ValidToken(message) ==
    \E user_id \in UserIds :
        /\ message.token = create_token(Some(user_id), FALSE)
        /\ users[user_id] # None
        /\ users[user_id][1].id = user_id
        /\ users[user_id][1].is_active

Refused(reply, action, detail) == reply = ErrorReply(action, 401, detail)

\* C39: on a connection nothing is dispatched before a message with a valid
\* token for an active user has been received: the handler gets a current user
\* only from such a message, and an action is dispatched only for a handler
\* that has one. While there is no current user, a message without a token is
\* answered 401 "Token required" and the connection stays open, and a message
\* with a token that is not valid is answered 401 and the connection is closed.
C39_SessionProtocol ==
    [][/\ socket'.dispatched > socket.dispatched => socket'.current_user # None
       /\ \A message \in Messages :
             run(message) /\ socket.current_user = None =>
                /\ ValidToken(message) <=> socket'.current_user # None
                /\ ~ValidToken(message) => socket'.dispatched = socket.dispatched
                /\ message.token = "" =>
                      /\ Refused(last'.val, message.action, "Token required")
                      /\ socket'.state = "open"
                /\ message.token # "" /\ ~ValidToken(message) =>
                      /\ Refused(last'.val, message.action, "Invalid token")
                      /\ socket'.state = "closed"]_vars

\* an action was dispatched on a connection that first refused a message
\* without a token and stayed open
C39_Witness ==
    /\ last.op = "run"
    /\ socket.state = "open"
    /\ socket.dispatched = 1
    /\ socket.received = MaxMessages
    /\ socket.current_user # None

\* C40: once the handler has a current user, every further message makes it
\* read the user's row again: if the row is gone or inactive, nothing is
\* dispatched, the reply is 401 and the connection is closed; otherwise the
\* action is dispatched for the row as it is now.
C40_Revalidation ==
    [][\A message \in Messages :
          run(message) /\ socket.current_user # None =>
             LET row == users[socket.current_user[1].id]
             IN  IF row = Some(NoUser) \/ ~row[1].is_active
                 THEN /\ socket'.dispatched = socket.dispatched
                      /\ Refused(last'.val, message.action, "User not found or inactive")
                      /\ socket'.state = "closed"
                      /\ socket'.close_code = 4001
                 ELSE /\ socket'.dispatched = socket.dispatched + 1
                      /\ socket'.state = "open"
                      /\ socket'.current_user = row
                      /\ last'.val = dispatch(row, message.action)]_vars

\* a connection that had authenticated was closed because its user was
\* deactivated or deleted before the next action
C40_Witness ==
    /\ last.op = "run"
    /\ socket.state = "closed"
    /\ socket.close_code = 4001
    /\ socket.current_user # None
    /\ socket.received >= 2
    /\ Refused(last.val, last.val.action, "User not found or inactive")

====
